---- MODULE Spec2Model ----
(***************************************************************************)
(* A model of scst-rs: an in-memory cache (Scst -> Handler -> Device,      *)
(* Driver -> Target -> Lun / IniGroup) of the SCST sysfs tree, the         *)
(* mutators that write commands to the "mgmt" control files and refresh    *)
(* the cache, the Options container, and the Config reconciler from_cfg.   *)
(*                                                                         *)
(* Strings that the code builds by formatting are built here with \o, so   *)
(* that "lun " \o "0" and "0" are different keys.  Command strings are     *)
(* sequences of tokens (verb, " ", argument, ...): the concatenation of    *)
(* the tokens is the string the code writes.                               *)
(***************************************************************************)
EXTENDS Integers, Sequences, FiniteSets, TLC

VARIABLES
    sysfs,      \* the kernel's tree: what the directories under the root hold
    cache,      \* the Scst struct: handlers and iscsi_driver, as loaded
    ret,        \* the last call and its result: [op, at, arg, o, res, key, bad]
    wlog,       \* the writes (echo calls) of the current or last call, in order
    pre,        \* cache and sysfs when the current or last call began
    pc,         \* "idle", or "from_cfg" while Scst::from_cfg is running
    todo,       \* from_cfg: the rest of the walk over the Config
    cfg,        \* the Config being applied by from_cfg, or built by to_cfg
    ncalls,     \* number of mutator calls made so far
    napply,     \* number of from_cfg calls made so far
    opts,       \* an Options container (Options.inner)
    ins,        \* the inserts that built opts, in order
    packed,     \* the results of the last serialization of opts
    text,       \* the content of an attribute file, a sequence of characters
    line,       \* what read_fl returned for it
    doc,        \* a configuration document
    parsed,     \* what Config::from returned for it
    roots,      \* Scst::init: the candidate root paths that exist
    reads,      \* Scst::init: the paths it looked at or read, in order
    broken      \* the directories whose attribute files cannot be read

\* the variables of the pure functions and of the loader
aux == <<text, line, doc, parsed, roots, reads, broken>>

\* the variables of the tree and its mutators, and those of Options
treeVars == <<sysfs, cache, ret, wlog, pre, pc, todo, cfg, ncalls, napply>>
optVars == <<opts, ins, packed>>

vars == <<sysfs, cache, ret, wlog, pre, pc, todo, cfg, ncalls, napply, opts, ins,
          packed, text, line, doc, parsed, roots, reads, broken>>

-----------------------------------------------------------------------------
(* Bounds of the model *)

MaxLunId == 1
MaxCalls == 1
MaxApply == 2
MaxInserts == 3
MaxFileLen == 4
MaxNum == 2
MaxMissing == 2
MaxBroken == 1
MaxInits == 2
MaxSeq == 2

(* Names the inputs are drawn from *)

HandlerNames == {"vdisk_blockio", "vdisk_fileio"}
DeviceNames == {"disk1", "disk2"}
TargetNames == {"iqn.t1", "iqn.t2"}
GroupNames == {"g1", "g2"}
InitiatorNames == {"iqn.i1", "iqn.i2"}
LunIds == 0..MaxLunId
OptKeys == {"read_only", "IncomingUser", "bogus"}
OptVals == {"0", "1"}

EmptyMap == [k \in {} |-> {}]

Remove(f, k) == [x \in DOMAIN f \ {k} |-> f[x]]

Insert(f, k, v) == [x \in DOMAIN f \cup {k} |-> IF x = k THEN v ELSE f[x]]

Contains(s, x) == \E i \in 1..Len(s) : s[i] = x

Range(s) == {s[i] : i \in 1..Len(s)}

\* every sequence that lists the members of S once each
Orders(S) == {s \in [1..Cardinality(S) -> S] : Range(s) = S}

-----------------------------------------------------------------------------
(* Paths *)

SCST_HANDLER == "handlers"
SCST_DRIVER == "targets"
TARGET_GROUP == "ini_groups"
TARGET_LUN == "luns"
TARGET_INITIATOR == "initiators"

\* Path::join: a path is the sequence of its components
join(root, name) == Append(root, name)

\* Path::file_name: the last component, "" for the empty path
file_name(path) == IF Len(path) = 0 THEN "" ELSE path[Len(path)]

ScstRoot == <<"scst_tgt">>
HandlerRoot(h) == join(join(ScstRoot, SCST_HANDLER), h)
DriverRoot == join(join(ScstRoot, SCST_DRIVER), "iscsi")

-----------------------------------------------------------------------------
(* Options: a HashMap<String, String>.  inner is a function from the stored *)
(* keys to their values; the order in which the HashMap iterates is not     *)
(* fixed by the code, so every operation that iterates takes the order as   *)
(* an argument (a sequence listing the stored keys once each).              *)

Options_new == EmptyMap

\* HashMap::insert: a later insert of the same key replaces the value
Options_insert(inner, k, v) == Insert(inner, k, v)

\* keys of the allow-list that are stored
contains_keys(inner, keys) == {k \in keys : k \in DOMAIN inner}

\* filter_map over the stored keys: if !keys.contains(key) { None } else { Some(key) }
different_set(inner, keys) ==
    {k \in DOMAIN inner : IF ~(k \in keys) THEN FALSE ELSE TRUE}

\* key.to_owned() + "=" + value
Item(inner, k) == <<k, "=", inner[k]>>

\* a join that puts the separator after every item
RECURSIVE join_items_trailing(_, _)
join_items_trailing(items, sep) ==
    IF Len(items) = 0 THEN <<>>
    ELSE items[1] \o <<sep>> \o join_items_trailing(Tail(items), sep)

\* Vec<String>::join(sep): the separator between consecutive items only
RECURSIVE join_items(_, _)
join_items(items, sep) ==
    IF Len(items) = 0 THEN <<>>
    ELSE IF Len(items) = 1 THEN items[1]
    ELSE items[1] \o <<sep>> \o join_items(Tail(items), sep)

to_string(inner, order) ==
    join_items([i \in 1..Len(order) |-> Item(inner, order[i])], ";")

None == [some |-> FALSE, s |-> <<>>]
Some(str) == [some |-> TRUE, s |-> str]

\* unconditional pack: the joined pairs, none when the container is empty
pack(inner, order) ==
    IF DOMAIN inner = {} THEN None ELSE Some(to_string(inner, order))

\* checked pack: fails listing the keys of the difference when it is not
\* empty, else the unconditional pack
check_pack(inner, keys, order) ==
    LET diff == different_set(inner, keys) IN
    IF diff # {}
    THEN [ok |-> FALSE, val |-> None, bad |-> diff]
    ELSE [ok |-> TRUE, val |-> pack(inner, order), bad |-> {}]

\* the command with " " and the packed options appended when there are any
cmd_with_options(cmd, keys, inner, order) ==
    LET r == check_pack(inner, keys, order) IN
    IF ~r.ok THEN [ok |-> FALSE, cmd |-> cmd, bad |-> r.bad]
    ELSE [ok |-> TRUE,
          cmd |-> IF r.val.some THEN cmd \o <<" ">> \o r.val.s ELSE cmd,
          bad |-> {}]

\* the allow-lists of the operations that take Options
DeviceParams == {"active", "bind_alua_state", "blocksize", "cluster_mode",
                 "dif_filename", "dif_mode", "dif_static_app_tag", "dif_type",
                 "filename", "numa_node_id", "nv_cache", "read_only",
                 "removable", "rotational", "thin_provisioned", "tst",
                 "write_through"}
TargetParams == {"IncomingUser", "OutgoingUser", "allowed_portal"}
LunParams == {"read_only"}
AllowLists == {DeviceParams, TargetParams, LunParams}

\* every Options container over the keys and values of the model
AllOptions == UNION {[D -> OptVals] : D \in SUBSET OptKeys}

-----------------------------------------------------------------------------
(* The kernel's tree.                                                       *)
(*   sysfs.devices[h]      the device directories under handlers/h          *)
(*   sysfs.enabled         targets/iscsi/enabled                            *)
(*   sysfs.targets[t]      [enabled, luns, groups] of targets/iscsi/t       *)
(*     .luns[d]            the device that luns/d/device links to           *)
(*     .groups[g]          [luns, inis] of ini_groups/g                     *)
(* The attribute files that no operation below reads back (type, tid,      *)
(* filename, size, ...) are left out.                                       *)

NewSysGroup == [luns |-> EmptyMap, inis |-> {}]
NewSysTarget == [enabled |-> 0, luns |-> EmptyMap, groups |-> EmptyMap]

\* the components of a path below the driver: targets/iscsi/<t>/ini_groups/<g>
TargetOf(path) == path[4]
GroupOf(path) == path[6]
HandlerOf(path) == path[3]

\* the LUN directory a path under .../luns belongs to: a target's or a group's
SysLuns(sys, lunsdir) ==
    IF Len(lunsdir) = 5
    THEN sys.targets[TargetOf(lunsdir)].luns
    ELSE sys.targets[TargetOf(lunsdir)].groups[GroupOf(lunsdir)].luns

SetSysLuns(sys, lunsdir, m) ==
    IF Len(lunsdir) = 5
    THEN [sys EXCEPT !.targets[TargetOf(lunsdir)].luns = m]
    ELSE [sys EXCEPT !.targets[TargetOf(lunsdir)].groups[GroupOf(lunsdir)].luns = m]

\* What the kernel does with a command written to a mgmt file: [ok, sys].
\* It refuses (the write fails) a command that names an existing entity to
\* add or a missing entity to delete.
K_add_device(sys, root, name) ==
    LET h == HandlerOf(root) IN
    IF name \in sys.devices[h] THEN [ok |-> FALSE, sys |-> sys]
    ELSE [ok |-> TRUE, sys |-> [sys EXCEPT !.devices[h] = @ \cup {name}]]

K_del_device(sys, root, name) ==
    LET h == HandlerOf(root) IN
    IF name \notin sys.devices[h] THEN [ok |-> FALSE, sys |-> sys]
    ELSE [ok |-> TRUE, sys |-> [sys EXCEPT !.devices[h] = @ \ {name}]]

K_add_target(sys, name) ==
    IF name \in DOMAIN sys.targets THEN [ok |-> FALSE, sys |-> sys]
    ELSE [ok |-> TRUE,
          sys |-> [sys EXCEPT !.targets = Insert(@, name, NewSysTarget)]]

K_del_target(sys, name) ==
    IF name \notin DOMAIN sys.targets THEN [ok |-> FALSE, sys |-> sys]
    ELSE [ok |-> TRUE, sys |-> [sys EXCEPT !.targets = Remove(@, name)]]

K_add_lun(sys, lunsdir, device, id) ==
    IF id \in DOMAIN SysLuns(sys, lunsdir) THEN [ok |-> FALSE, sys |-> sys]
    ELSE [ok |-> TRUE,
          sys |-> SetSysLuns(sys, lunsdir, Insert(SysLuns(sys, lunsdir), id, device))]

K_replace_lun(sys, lunsdir, device, id) ==
    IF id \notin DOMAIN SysLuns(sys, lunsdir) THEN [ok |-> FALSE, sys |-> sys]
    ELSE [ok |-> TRUE,
          sys |-> SetSysLuns(sys, lunsdir, Insert(SysLuns(sys, lunsdir), id, device))]

K_del_lun(sys, lunsdir, id) ==
    IF id \notin DOMAIN SysLuns(sys, lunsdir) THEN [ok |-> FALSE, sys |-> sys]
    ELSE [ok |-> TRUE,
          sys |-> SetSysLuns(sys, lunsdir, Remove(SysLuns(sys, lunsdir), id))]

K_create_group(sys, groupsdir, name) ==
    LET t == TargetOf(groupsdir) IN
    IF name \in DOMAIN sys.targets[t].groups THEN [ok |-> FALSE, sys |-> sys]
    ELSE [ok |-> TRUE,
          sys |-> [sys EXCEPT !.targets[t].groups = Insert(@, name, NewSysGroup)]]

K_del_group(sys, groupsdir, name) ==
    LET t == TargetOf(groupsdir) IN
    IF name \notin DOMAIN sys.targets[t].groups THEN [ok |-> FALSE, sys |-> sys]
    ELSE [ok |-> TRUE, sys |-> [sys EXCEPT !.targets[t].groups = Remove(@, name)]]

K_add_initiator(sys, inidir, ini) ==
    LET t == TargetOf(inidir)
        g == GroupOf(inidir) IN
    IF ini \in sys.targets[t].groups[g].inis THEN [ok |-> FALSE, sys |-> sys]
    ELSE [ok |-> TRUE,
          sys |-> [sys EXCEPT !.targets[t].groups[g].inis = @ \cup {ini}]]

K_del_initiator(sys, inidir, ini) ==
    LET t == TargetOf(inidir)
        g == GroupOf(inidir) IN
    IF ini \notin sys.targets[t].groups[g].inis THEN [ok |-> FALSE, sys |-> sys]
    ELSE [ok |-> TRUE,
          sys |-> [sys EXCEPT !.targets[t].groups[g].inis = @ \ {ini}]]

K_enable_driver(sys, v) == [ok |-> TRUE, sys |-> [sys EXCEPT !.enabled = v]]

K_enable_target(sys, root, v) ==
    [ok |-> TRUE, sys |-> [sys EXCEPT !.targets[TargetOf(root)].enabled = v]]

-----------------------------------------------------------------------------
(* Layer::load of each entity: the cache record read from the kernel's     *)
(* tree at a path.  name is the last component of the path.                 *)

Device_load(path) == [root |-> path, name |-> file_name(path)]

Lun_load(sysluns, path) ==
    [root |-> path, name |-> file_name(path), device |-> sysluns[file_name(path)]]

\* the child LUNs of a luns directory, keyed by lun.name()
Luns_load(sysluns, lunsdir) ==
    LET L(d) == Lun_load(sysluns, join(lunsdir, d)) IN
    [k \in {L(d).name : d \in DOMAIN sysluns} |->
        L(CHOOSE d \in DOMAIN sysluns : L(d).name = k)]

\* read_dir lists the initiator files in an order the code does not fix:
\* perm lists every initiator name once, and the files come in that order
IniGroup_load(sg, path, perm) ==
    [root |-> path,
     name |-> file_name(path),
     luns |-> Luns_load(sg.luns, join(path, TARGET_LUN)),
     initiators |-> SelectSeq(perm, LAMBDA i : i \in sg.inis)]

Target_load(st, path, perm) ==
    [root |-> path,
     name |-> file_name(path),
     enabled |-> st.enabled,
     luns |-> Luns_load(st.luns, join(path, TARGET_LUN)),
     ini_groups |->
        [g \in DOMAIN st.groups |->
            IniGroup_load(st.groups[g], join(join(path, TARGET_GROUP), g), perm)]]

Driver_load(sys, path, perm) ==
    [root |-> path,
     name |-> file_name(path),
     enabled |-> sys.enabled,
     targets |->
        [t \in DOMAIN sys.targets |-> Target_load(sys.targets[t], join(path, t), perm)]]

Handler_load(sys, path) ==
    [root |-> path,
     name |-> file_name(path),
     devices |->
        [d \in sys.devices[file_name(path)] |-> Device_load(join(path, d))]]

Scst_load(sys, root, perm) ==
    [root |-> root,
     handlers |->
        [h \in DOMAIN sys.devices |->
            Handler_load(sys, join(join(root, SCST_HANDLER), h))],
     iscsi_driver |-> Driver_load(sys, join(join(root, SCST_DRIVER), "iscsi"), perm)]

-----------------------------------------------------------------------------
(* The command issuer.  io names the step of a call that the environment   *)
(* makes fail: "write" (the open or the write of echo), "load" (a read of  *)
(* the reload that follows), or "ok" (none).                                *)

IOs == {"ok", "write", "load"}

\* echo(root, cmd): one write of cmd to the file; k is the kernel's answer
echo(file, cmd, io, k) == [file |-> file, cmd |-> cmd, ok |-> io # "write" /\ k.ok]

\* Layer::mgmt: the file named mgmt under root
mgmt(root, cmd, io, k) == echo(join(root, "mgmt"), cmd, io, k)

\* the outcome of a method: the new self, the kernel's tree, the result and
\* the writes it made
R(self, sys, res, key, bad, log) ==
    [self |-> self, sys |-> sys, res |-> res, key |-> key, bad |-> bad, log |-> log]

-----------------------------------------------------------------------------
(* Handler *)

\* add_device without the contains_key precondition
Handler_add_device_unchecked(self, sys, name, filename, o, order, io) ==
    LET root == self.root
        c == cmd_with_options(<<"add_device", " ", name, " ", "filename=", filename>>,
                              DeviceParams, o, order)
        k == K_add_device(sys, root, name)
        w == mgmt(root, c.cmd, io, k)
        device == Device_load(join(root, name))
    IN  IF ~c.ok THEN R(self, sys, "BadOptions", "", c.bad, <<>>)
        ELSE IF ~w.ok THEN R(self, sys, "DeviceAddFail", name, {}, <<w>>)
        ELSE IF io = "load" THEN R(self, k.sys, "Io", "", {}, <<w>>)
        ELSE R([self EXCEPT !.devices = Insert(@, device.name, device)],
               k.sys, "Ok", "", {}, <<w>>)

Handler_add_device(self, sys, name, filename, o, order, io) ==
    LET root == self.root
        c == cmd_with_options(<<"add_device", " ", name, " ", "filename=", filename>>,
                              DeviceParams, o, order)
        k == K_add_device(sys, root, name)
        w == mgmt(root, c.cmd, io, k)
        device == Device_load(join(root, name))
    IN  IF name \in DOMAIN self.devices
        THEN R(self, sys, "DeviceExists", name, {}, <<>>)
        ELSE IF ~c.ok THEN R(self, sys, "BadOptions", "", c.bad, <<>>)
        ELSE IF ~w.ok THEN R(self, sys, "DeviceAddFail", name, {}, <<w>>)
        ELSE IF io = "load" THEN R(self, k.sys, "Io", "", {}, <<w>>)
        ELSE R([self EXCEPT !.devices = Insert(@, device.name, device)],
               k.sys, "Ok", "", {}, <<w>>)

\* del_device that drops the key before it issues the command
Handler_del_device_eager(self, sys, name, io) ==
    LET root == self.root
        k == K_del_device(sys, root, name)
        w == mgmt(root, <<"del_device", " ", name>>, io, k)
        gone == [self EXCEPT !.devices = Remove(@, name)]
    IN  IF name \notin DOMAIN self.devices
        THEN R(self, sys, "NoDevice", name, {}, <<>>)
        ELSE IF ~w.ok THEN R(gone, sys, "Io", "", {}, <<w>>)
        ELSE R(gone, k.sys, "Ok", "", {}, <<w>>)

Handler_del_device(self, sys, name, io) ==
    LET root == self.root
        k == K_del_device(sys, root, name)
        w == mgmt(root, <<"del_device", " ", name>>, io, k)
    IN  IF name \notin DOMAIN self.devices
        THEN R(self, sys, "NoDevice", name, {}, <<>>)
        ELSE IF ~w.ok THEN R(self, sys, "Io", "", {}, <<w>>)
        ELSE R([self EXCEPT !.devices = Remove(@, name)], k.sys, "Ok", "", {}, <<w>>)

-----------------------------------------------------------------------------
(* Driver *)

Driver_enable(self, sys, io) ==
    LET k == K_enable_driver(sys, 1)
        w == echo(join(self.root, "enabled"), <<"1">>, io, k)
    IN  IF ~w.ok THEN R(self, sys, "Io", "", {}, <<w>>)
        ELSE R([self EXCEPT !.enabled = 1], k.sys, "Ok", "", {}, <<w>>)

Driver_disable(self, sys, io) ==
    LET k == K_enable_driver(sys, 0)
        w == echo(join(self.root, "enabled"), <<"0">>, io, k)
    IN  IF ~w.ok THEN R(self, sys, "Io", "", {}, <<w>>)
        ELSE R([self EXCEPT !.enabled = 0], k.sys, "Ok", "", {}, <<w>>)

\* add_target that rebuilds the target map from the one target it loaded
Driver_add_target_reset(self, sys, name, o, order, io, perm) ==
    LET root == self.root
        c == cmd_with_options(<<"add_target", " ", name>>, TargetParams, o, order)
        k == K_add_target(sys, name)
        w == mgmt(root, c.cmd, io, k)
        target == Target_load(k.sys.targets[name], join(root, name), perm)
    IN  IF name \in DOMAIN self.targets
        THEN R(self, sys, "TargetExists", name, {}, <<>>)
        ELSE IF ~c.ok THEN R(self, sys, "BadOptions", "", c.bad, <<>>)
        ELSE IF ~w.ok THEN R(self, sys, "Io", "", {}, <<w>>)
        ELSE IF io = "load" THEN R(self, k.sys, "Io", "", {}, <<w>>)
        ELSE R([self EXCEPT !.targets = Insert(EmptyMap, target.name, target)],
               k.sys, "Ok", "", {}, <<w>>)

Driver_add_target(self, sys, name, o, order, io, perm) ==
    LET root == self.root
        c == cmd_with_options(<<"add_target", " ", name>>, TargetParams, o, order)
        k == K_add_target(sys, name)
        w == mgmt(root, c.cmd, io, k)
        target == Target_load(k.sys.targets[name], join(root, name), perm)
    IN  IF name \in DOMAIN self.targets
        THEN R(self, sys, "TargetExists", name, {}, <<>>)
        ELSE IF ~c.ok THEN R(self, sys, "BadOptions", "", c.bad, <<>>)
        ELSE IF ~w.ok THEN R(self, sys, "Io", "", {}, <<w>>)
        ELSE IF io = "load" THEN R(self, k.sys, "Io", "", {}, <<w>>)
        ELSE R([self EXCEPT !.targets = Insert(@, target.name, target)],
               k.sys, "Ok", "", {}, <<w>>)

\* del_target that leaves the target in the cache
Driver_del_target_cached(self, sys, name, io) ==
    LET k == K_del_target(sys, name)
        w == mgmt(self.root, <<"del_target", " ", name>>, io, k)
    IN  IF name \notin DOMAIN self.targets
        THEN R(self, sys, "NoTarget", name, {}, <<>>)
        ELSE IF ~w.ok THEN R(self, sys, "Io", "", {}, <<w>>)
        ELSE R(self, k.sys, "Ok", "", {}, <<w>>)

Driver_del_target(self, sys, name, io) ==
    LET k == K_del_target(sys, name)
        w == mgmt(self.root, <<"del_target", " ", name>>, io, k)
    IN  IF name \notin DOMAIN self.targets
        THEN R(self, sys, "NoTarget", name, {}, <<>>)
        ELSE IF ~w.ok THEN R(self, sys, "Io", "", {}, <<w>>)
        ELSE R([self EXCEPT !.targets = Remove(@, name)], k.sys, "Ok", "", {}, <<w>>)

-----------------------------------------------------------------------------
(* Target and IniGroup share the shape of their LUN operations: E names    *)
(* the errors of the one or the other.                                      *)

TargetErrs == [exists |-> "TargetLunExists", none |-> "TargetNoLun",
               add |-> "TargetAddLunFail", rem |-> "TargetRemLunFail"]
GroupErrs == [exists |-> "GroupLunExists", none |-> "GroupNoLun",
              add |-> "GroupAddLunFail", rem |-> "GroupRemLunFail"]

\* add_lun that inserts the LUN before its load has returned
\* add_lun that files the new LUN under the name of its device
add_lun_keyed_by_device(self, sys, device, id_ref, o, order, io, E) ==
    LET c == cmd_with_options(<<"add", " ", device, " ", id_ref>>, LunParams, o, order)
        root == join(self.root, TARGET_LUN)
        k == K_add_lun(sys, root, device, id_ref)
        w == mgmt(root, c.cmd, io, k)
        lun == Lun_load(SysLuns(k.sys, root), join(root, id_ref))
    IN  IF id_ref \in DOMAIN self.luns
        THEN R(self, sys, E.exists, id_ref, {}, <<>>)
        ELSE IF ~c.ok THEN R(self, sys, "BadOptions", "", c.bad, <<>>)
        ELSE IF ~w.ok THEN R(self, sys, E.add, id_ref, {}, <<w>>)
        ELSE IF io = "load" THEN R(self, k.sys, "Io", "", {}, <<w>>)
        ELSE R([self EXCEPT !.luns = Insert(@, lun.device, lun)], k.sys, "Ok", "", {}, <<w>>)
add_lun_insert_first(self, sys, device, id_ref, o, order, io, E) ==
    LET c == cmd_with_options(<<"add", " ", device, " ", id_ref>>, LunParams, o, order)
        root == join(self.root, TARGET_LUN)
        k == K_add_lun(sys, root, device, id_ref)
        w == mgmt(root, c.cmd, io, k)
        lun == Lun_load(SysLuns(k.sys, root), join(root, id_ref))
        new == [self EXCEPT !.luns = Insert(@, lun.name, lun)]
    IN  IF id_ref \in DOMAIN self.luns
        THEN R(self, sys, E.exists, id_ref, {}, <<>>)
        ELSE IF ~c.ok THEN R(self, sys, "BadOptions", "", c.bad, <<>>)
        ELSE IF ~w.ok THEN R(self, sys, E.add, id_ref, {}, <<w>>)
        ELSE IF io = "load" THEN R(new, k.sys, "Io", "", {}, <<w>>)
        ELSE R(new, k.sys, "Ok", "", {}, <<w>>)

add_lun(self, sys, device, id_ref, o, order, io, E) ==
    LET c == cmd_with_options(<<"add", " ", device, " ", id_ref>>, LunParams, o, order)
        root == join(self.root, TARGET_LUN)
        k == K_add_lun(sys, root, device, id_ref)
        w == mgmt(root, c.cmd, io, k)
        lun == Lun_load(SysLuns(k.sys, root), join(root, id_ref))
    IN  IF id_ref \in DOMAIN self.luns
        THEN R(self, sys, E.exists, id_ref, {}, <<>>)
        ELSE IF ~c.ok THEN R(self, sys, "BadOptions", "", c.bad, <<>>)
        ELSE IF ~w.ok THEN R(self, sys, E.add, id_ref, {}, <<w>>)
        ELSE IF io = "load" THEN R(self, k.sys, "Io", "", {}, <<w>>)
        ELSE R([self EXCEPT !.luns = Insert(@, lun.name, lun)], k.sys, "Ok", "", {}, <<w>>)

set_lun(self, sys, device, id_ref, o, order, io, E) ==
    LET c == cmd_with_options(<<"replace", " ", device, " ", id_ref>>, LunParams, o, order)
        root == join(self.root, TARGET_LUN)
        k == K_replace_lun(sys, root, device, id_ref)
        w == mgmt(root, c.cmd, io, k)
        lun == Lun_load(SysLuns(k.sys, root), join(root, id_ref))
    IN  IF id_ref \notin DOMAIN self.luns
        THEN R(self, sys, E.none, id_ref, {}, <<>>)
        ELSE IF ~c.ok THEN R(self, sys, "BadOptions", "", c.bad, <<>>)
        ELSE IF ~w.ok THEN R(self, sys, "LunSetAttrFail", id_ref, {}, <<w>>)
        ELSE IF io = "load" THEN R(self, k.sys, "Io", "", {}, <<w>>)
        ELSE R([self EXCEPT !.luns = Insert(@, lun.name, lun)], k.sys, "Ok", "", {}, <<w>>)

del_lun(self, sys, id_ref, io, E) ==
    LET root == join(self.root, TARGET_LUN)
        k == K_del_lun(sys, root, id_ref)
        w == mgmt(root, <<"del", " ", id_ref>>, io, k)
    IN  IF id_ref \notin DOMAIN self.luns
        THEN R(self, sys, E.none, id_ref, {}, <<>>)
        ELSE IF ~w.ok THEN R(self, sys, E.rem, id_ref, {}, <<w>>)
        ELSE R([self EXCEPT !.luns = Remove(@, id_ref)], k.sys, "Ok", "", {}, <<w>>)

\* an add_lun of the target that writes its command and forgets the LUN
Target_add_lun_unrecorded(self, sys, device, id_ref, o, order, io) ==
    [add_lun(self, sys, device, id_ref, o, order, io, TargetErrs) EXCEPT !.self = self]
Target_add_lun(self, sys, device, id_ref, o, order, io) ==
    add_lun(self, sys, device, id_ref, o, order, io, TargetErrs)

Target_set_lun(self, sys, device, id_ref, o, order, io) ==
    set_lun(self, sys, device, id_ref, o, order, io, TargetErrs)

Target_del_lun(self, sys, id_ref, io) == del_lun(self, sys, id_ref, io, TargetErrs)

Target_enable(self, sys, io) ==
    LET k == K_enable_target(sys, self.root, 1)
        w == echo(join(self.root, "enabled"), <<"1">>, io, k)
    IN  IF ~w.ok THEN R(self, sys, "Io", "", {}, <<w>>)
        ELSE R([self EXCEPT !.enabled = 1], k.sys, "Ok", "", {}, <<w>>)

\* disable that clears the flag before the write has succeeded
Target_disable_flag_first(self, sys, io) ==
    LET k == K_enable_target(sys, self.root, 0)
        w == echo(join(self.root, "enabled"), <<"0">>, io, k)
        off == [self EXCEPT !.enabled = 0]
    IN  IF ~w.ok THEN R(off, sys, "Io", "", {}, <<w>>)
        ELSE R(off, k.sys, "Ok", "", {}, <<w>>)

Target_disable(self, sys, io) ==
    LET k == K_enable_target(sys, self.root, 0)
        w == echo(join(self.root, "enabled"), <<"0">>, io, k)
    IN  IF ~w.ok THEN R(self, sys, "Io", "", {}, <<w>>)
        ELSE R([self EXCEPT !.enabled = 0], k.sys, "Ok", "", {}, <<w>>)

Target_create_ini_group(self, sys, name, io, perm) ==
    LET root == join(self.root, TARGET_GROUP)
        k == K_create_group(sys, root, name)
        w == mgmt(root, <<"create", " ", name>>, io, k)
        group == IniGroup_load(k.sys.targets[TargetOf(root)].groups[name],
                               join(root, name), perm)
    IN  IF name \in DOMAIN self.ini_groups
        THEN R(self, sys, "GroupExists", name, {}, <<>>)
        ELSE IF ~w.ok THEN R(self, sys, "Io", "", {}, <<w>>)
        ELSE IF io = "load" THEN R(self, k.sys, "Io", "", {}, <<w>>)
        ELSE R([self EXCEPT !.ini_groups = Insert(@, group.name, group)],
               k.sys, "Ok", "", {}, <<w>>)

Target_del_ini_group(self, sys, name, io) ==
    LET root == join(self.root, TARGET_GROUP)
        k == K_del_group(sys, root, name)
        w == mgmt(root, <<"del", " ", name>>, io, k)
    IN  IF name \notin DOMAIN self.ini_groups
        THEN R(self, sys, "NoGroup", name, {}, <<>>)
        ELSE IF ~w.ok THEN R(self, sys, "Io", "", {}, <<w>>)
        ELSE R([self EXCEPT !.ini_groups = Remove(@, name)], k.sys, "Ok", "", {}, <<w>>)

IniGroup_add_lun(self, sys, device, id_ref, o, order, io) ==
    add_lun(self, sys, device, id_ref, o, order, io, GroupErrs)

IniGroup_set_lun(self, sys, device, id_ref, o, order, io) ==
    set_lun(self, sys, device, id_ref, o, order, io, GroupErrs)

IniGroup_del_lun(self, sys, id_ref, io) == del_lun(self, sys, id_ref, io, GroupErrs)

\* Vec::remove(position of the first item equal to ini)
RemoveFirst(s, x) ==
    IF ~Contains(s, x) THEN s
    ELSE LET i == CHOOSE j \in 1..Len(s) :
                    s[j] = x /\ \A m \in 1..(j - 1) : s[m] # x
         IN SubSeq(s, 1, i - 1) \o SubSeq(s, i + 1, Len(s))

\* add_initiator that pushes the identifier without looking for it first
IniGroup_add_initiator_unchecked(self, sys, ini, io) ==
    LET root == join(self.root, TARGET_INITIATOR)
        k == K_add_initiator(sys, root, ini)
        w == mgmt(root, <<"add", " ", ini>>, io, k)
    IN  IF io = "write" THEN R(self, sys, "GroupAddIniFail", ini, {}, <<w>>)
        ELSE R([self EXCEPT !.initiators = Append(@, ini)], k.sys, "Ok", "", {}, <<w>>)
IniGroup_add_initiator(self, sys, ini, io) ==
    LET root == join(self.root, TARGET_INITIATOR)
        k == K_add_initiator(sys, root, ini)
        w == mgmt(root, <<"add", " ", ini>>, io, k)
    IN  IF Contains(self.initiators, ini)
        THEN R(self, sys, "GroupIniExists", ini, {}, <<>>)
        ELSE IF ~w.ok THEN R(self, sys, "GroupAddIniFail", ini, {}, <<w>>)
        ELSE R([self EXCEPT !.initiators = Append(@, ini)], k.sys, "Ok", "", {}, <<w>>)

IniGroup_del_initiator(self, sys, ini, io) ==
    LET root == join(self.root, TARGET_INITIATOR)
        k == K_del_initiator(sys, root, ini)
        w == mgmt(root, <<"del", " ", ini>>, io, k)
    IN  IF ~Contains(self.initiators, ini)
        THEN R(self, sys, "GroupNoIni", ini, {}, <<>>)
        ELSE IF ~w.ok THEN R(self, sys, "GroupRemIniFail", ini, {}, <<w>>)
        ELSE R([self EXCEPT !.initiators = RemoveFirst(@, ini)], k.sys, "Ok", "", {}, <<w>>)

-----------------------------------------------------------------------------
(* The kernel trees a run starts from.  Scst::init loads whatever tree the *)
(* kernel holds; the LUN directories are named by the LUN number.           *)

LunDirs == {ToString(i) : i \in LunIds}

EmptyTree ==
    [devices |-> [h \in HandlerNames |-> {}], enabled |-> 0, targets |-> EmptyMap]

FullGroup == [luns |-> [d \in LunDirs |-> "disk1"], inis |-> InitiatorNames]

FullTarget ==
    [enabled |-> 1,
     luns |-> [d \in LunDirs |-> "disk1"],
     groups |-> [g \in GroupNames |-> FullGroup]]

FullTree ==
    [devices |-> [h \in HandlerNames |-> DeviceNames],
     enabled |-> 1,
     targets |-> [t \in TargetNames |-> FullTarget]]

\* one device, one target with one LUN, one group with one initiator
SmallTree ==
    [devices |-> [h \in HandlerNames |->
                    IF h = "vdisk_blockio" THEN {"disk1"} ELSE {}],
     enabled |-> 0,
     targets |-> [t \in {"iqn.t1"} |->
        [enabled |-> 0,
         luns |-> [d \in {"0"} |-> "disk1"],
         groups |-> [g \in {"g1"} |->
            [luns |-> EmptyMap, inis |-> {"iqn.i1"}]]]]]

InitTrees == {EmptyTree, SmallTree, FullTree}

NoRet ==
    [op |-> "", at |-> <<>>, arg |-> "", o |-> EmptyMap, res |-> "", key |-> "",
     bad |-> {}]
NoPacked == [op |-> "", ok |-> TRUE, val |-> None, bad |-> {}, keys |-> {}, order |-> <<>>]
NoCfg == [handlers |-> <<>>, drivers |-> <<>>]

NoLine == [op |-> "", ok |-> TRUE, val |-> <<>>]
NoParsed == [op |-> "", ok |-> TRUE, cfg |-> NoCfg]

\* the tree and its cache: Scst::init has loaded what the kernel holds
InitTree ==
    /\ sysfs \in InitTrees
    /\ \E perm \in Orders(InitiatorNames) : cache = Scst_load(sysfs, ScstRoot, perm)
    /\ ret = NoRet
    /\ wlog = <<>>
    /\ pre = [cache |-> cache, sysfs |-> sysfs]
    /\ pc = "idle"
    /\ todo = <<>>
    /\ cfg = NoCfg
    /\ ncalls = 0
    /\ napply = 0

\* a new Options container
InitOptions ==
    /\ opts = Options_new
    /\ ins = <<>>
    /\ packed = NoPacked

\* nothing read, nothing parsed, every directory readable
InitRead == text = <<>> /\ line = NoLine
InitDoc == doc = EmptyMap /\ parsed = NoParsed
InitRoots == roots = {ScstRoot} /\ reads = <<>>
InitBroken == broken = {}

\* Scst::init: the cache is the load of the kernel's tree
Init == InitTree /\ InitOptions /\ InitRead /\ InitDoc /\ InitRoots /\ InitBroken

-----------------------------------------------------------------------------
(* One action per mutator: the call, with its arguments and the            *)
(* environment's outcome drawn from the sets above.  ret records the call  *)
(* (op, the root of the entity it was called on, its key argument and      *)
(* its Options) and what it returned.                                       *)

Targets == cache.iscsi_driver.targets

\* each write of a call, with the result of the call that made it
Tag(log, res) ==
    [i \in 1..Len(log) |->
        [file |-> log[i].file, cmd |-> log[i].cmd, ok |-> log[i].ok, res |-> res]]

\* the call on self with key argument arg and Options o returns r; c is the
\* cache with the new self in its place
ReturnWith(op, self, arg, o, r, c) ==
    /\ cache' = c
    /\ sysfs' = r.sys
    /\ ret' = [op |-> op, at |-> self.root, arg |-> arg, o |-> o,
               res |-> r.res, key |-> r.key, bad |-> r.bad]
    /\ wlog' = Tag(r.log, r.res)
    /\ ncalls' = ncalls + 1
    /\ UNCHANGED <<pre, pc, todo, cfg, napply, opts, ins, packed, aux>>

\* a call of a method that takes no Options
Return(op, self, arg, r, c) == ReturnWith(op, self, arg, Options_new, r, c)

CanCall == pc = "idle" /\ ncalls < MaxCalls

WithHandler(h, r) == [cache EXCEPT !.handlers[h] = r.self]
WithDriver(r) == [cache EXCEPT !.iscsi_driver = r.self]
WithTarget(t, r) == [cache EXCEPT !.iscsi_driver.targets[t] = r.self]
WithGroup(t, g, r) ==
    [cache EXCEPT !.iscsi_driver.targets[t].ini_groups[g] = r.self]

\* the Options a caller passes, with the order in which the HashMap iterates
MutKeys == {"read_only", "IncomingUser"}
OptArgs ==
    UNION {{[o |-> [k \in D |-> "1"], order |-> ord] : ord \in Orders(D)} :
             D \in SUBSET MutKeys}

AddDevice ==
    /\ CanCall
    /\ \E h \in HandlerNames, name \in DeviceNames, a \in OptArgs, io \in IOs :
        LET self == cache.handlers[h]
            r == Handler_add_device(self, sysfs, name, "/dev/sdb", a.o, a.order, io)
        IN  ReturnWith("add_device", self, name, a.o, r, WithHandler(h, r))

DelDevice ==
    /\ CanCall
    /\ \E h \in HandlerNames, name \in DeviceNames, io \in IOs :
        LET self == cache.handlers[h]
            r == Handler_del_device(self, sysfs, name, io)
        IN  Return("del_device", self, name, r, WithHandler(h, r))

AddTarget ==
    /\ CanCall
    /\ \E name \in TargetNames, a \in OptArgs, io \in IOs,
          perm \in Orders(InitiatorNames) :
        LET self == cache.iscsi_driver
            r == Driver_add_target(self, sysfs, name, a.o, a.order, io, perm)
        IN  ReturnWith("add_target", self, name, a.o, r, WithDriver(r))

DelTarget ==
    /\ CanCall
    /\ \E name \in TargetNames, io \in IOs :
        LET self == cache.iscsi_driver
            r == Driver_del_target(self, sysfs, name, io)
        IN  Return("del_target", self, name, r, WithDriver(r))

TargetAddLun ==
    /\ CanCall
    /\ \E t \in DOMAIN Targets, d \in DeviceNames, i \in LunDirs, a \in OptArgs,
          io \in IOs :
        LET r == Target_add_lun(Targets[t], sysfs, d, i, a.o, a.order, io)
        IN  ReturnWith("target_add_lun", Targets[t], i, a.o, r, WithTarget(t, r))

TargetSetLun ==
    /\ CanCall
    /\ \E t \in DOMAIN Targets, d \in DeviceNames, i \in LunDirs, a \in OptArgs,
          io \in IOs :
        LET r == Target_set_lun(Targets[t], sysfs, d, i, a.o, a.order, io)
        IN  ReturnWith("target_set_lun", Targets[t], i, a.o, r, WithTarget(t, r))

TargetDelLun ==
    /\ CanCall
    /\ \E t \in DOMAIN Targets, i \in LunDirs, io \in IOs :
        LET r == Target_del_lun(Targets[t], sysfs, i, io)
        IN  Return("target_del_lun", Targets[t], i, r, WithTarget(t, r))

CreateIniGroup ==
    /\ CanCall
    /\ \E t \in DOMAIN Targets, name \in GroupNames, io \in IOs,
          perm \in Orders(InitiatorNames) :
        LET r == Target_create_ini_group(Targets[t], sysfs, name, io, perm)
        IN  Return("create_ini_group", Targets[t], name, r, WithTarget(t, r))

DelIniGroup ==
    /\ CanCall
    /\ \E t \in DOMAIN Targets, name \in GroupNames, io \in IOs :
        LET r == Target_del_ini_group(Targets[t], sysfs, name, io)
        IN  Return("del_ini_group", Targets[t], name, r, WithTarget(t, r))

GroupAddLun ==
    /\ CanCall
    /\ \E t \in DOMAIN Targets : \E g \in DOMAIN Targets[t].ini_groups :
       \E d \in DeviceNames, i \in LunDirs, a \in OptArgs, io \in IOs :
        LET self == Targets[t].ini_groups[g]
            r == IniGroup_add_lun(self, sysfs, d, i, a.o, a.order, io)
        IN  ReturnWith("group_add_lun", self, i, a.o, r, WithGroup(t, g, r))

GroupSetLun ==
    /\ CanCall
    /\ \E t \in DOMAIN Targets : \E g \in DOMAIN Targets[t].ini_groups :
       \E d \in DeviceNames, i \in LunDirs, a \in OptArgs, io \in IOs :
        LET self == Targets[t].ini_groups[g]
            r == IniGroup_set_lun(self, sysfs, d, i, a.o, a.order, io)
        IN  ReturnWith("group_set_lun", self, i, a.o, r, WithGroup(t, g, r))

GroupDelLun ==
    /\ CanCall
    /\ \E t \in DOMAIN Targets : \E g \in DOMAIN Targets[t].ini_groups :
       \E i \in LunDirs, io \in IOs :
        LET self == Targets[t].ini_groups[g]
            r == IniGroup_del_lun(self, sysfs, i, io)
        IN  Return("group_del_lun", self, i, r, WithGroup(t, g, r))

AddInitiator ==
    /\ CanCall
    /\ \E t \in DOMAIN Targets : \E g \in DOMAIN Targets[t].ini_groups :
       \E ini \in InitiatorNames, io \in IOs :
        LET self == Targets[t].ini_groups[g]
            r == IniGroup_add_initiator(self, sysfs, ini, io)
        IN  Return("add_initiator", self, ini, r, WithGroup(t, g, r))

DelInitiator ==
    /\ CanCall
    /\ \E t \in DOMAIN Targets : \E g \in DOMAIN Targets[t].ini_groups :
       \E ini \in InitiatorNames, io \in IOs :
        LET self == Targets[t].ini_groups[g]
            r == IniGroup_del_initiator(self, sysfs, ini, io)
        IN  Return("del_initiator", self, ini, r, WithGroup(t, g, r))

Next ==
    \/ AddDevice
    \/ DelDevice
    \/ AddTarget
    \/ DelTarget
    \/ TargetAddLun
    \/ TargetSetLun
    \/ TargetDelLun
    \/ CreateIniGroup
    \/ DelIniGroup
    \/ GroupAddLun
    \/ GroupSetLun
    \/ GroupDelLun
    \/ AddInitiator
    \/ DelInitiator

Spec == Init /\ [][Next]_vars
-----------------------------------------------------------------------------
(* Config.  Each BTreeMap of the Config is the sequence of its values in   *)
(* key order, which is the order values() yields them; each Vec is the     *)
(* sequence it is.  from_cfg reads the name field of each entry.            *)

LunCfg(id, device) == [id |-> id, device |-> device]
DeviceCfg(name, filename) == [name |-> name, filename |-> filename]
HanderCfg(name, devices) == [name |-> name, devices |-> devices]
IniGroupCfg(name, luns, initiators) ==
    [name |-> name, luns |-> luns, initiators |-> initiators]
TargetCfg(name, enabled, luns, groups) ==
    [name |-> name, enabled |-> enabled, luns |-> luns, groups |-> groups]
DriverCfg(name, enabled, targets) ==
    [name |-> name, enabled |-> enabled, targets |-> targets]
Config(handlers, drivers) == [handlers |-> handlers, drivers |-> drivers]

\* one device, one target with one LUN, one group with one initiator
CfgSmall(de, te) ==
    Config(<<HanderCfg("vdisk_blockio", <<DeviceCfg("disk1", "/dev/sdb")>>)>>,
           <<DriverCfg("iscsi", de,
                <<TargetCfg("iqn.t1", te, <<LunCfg(0, "disk1")>>,
                    <<IniGroupCfg("g1", <<>>, <<"iqn.i1">>)>>)>>)>>)

\* the same without the LUN
CfgNoLun(de, te) ==
    Config(<<HanderCfg("vdisk_blockio", <<DeviceCfg("disk1", "/dev/sdb")>>)>>,
           <<DriverCfg("iscsi", de,
                <<TargetCfg("iqn.t1", te, <<>>,
                    <<IniGroupCfg("g1", <<>>, <<"iqn.i1">>)>>)>>)>>)

\* the second device, target, group and initiator, with a LUN in the group
CfgOther(de, te) ==
    Config(<<HanderCfg("vdisk_blockio", <<DeviceCfg("disk2", "/dev/sdc")>>),
             HanderCfg("vdisk_fileio", <<DeviceCfg("disk1", "/tmp/img")>>)>>,
           <<DriverCfg("iscsi", de,
                <<TargetCfg("iqn.t2", te, <<>>,
                    <<IniGroupCfg("g2", <<LunCfg(MaxLunId, "disk2")>>,
                                  <<"iqn.i2", "iqn.i1">>)>>)>>)>>)

\* handlers without devices and a driver without targets
CfgBare == Config(<<HanderCfg("vdisk_blockio", <<>>), HanderCfg("vdisk_fileio", <<>>)>>,
                  <<DriverCfg("iscsi", 0, <<>>)>>)

\* a handler the kernel does not have, between two that it has (the
\* entries of a Config come in the order of their keys)
CfgUnknown ==
    Config(<<HanderCfg("vdisk_blockio", <<DeviceCfg("disk1", "/dev/sdb")>>),
             HanderCfg("vdisk_cdrom", <<DeviceCfg("disk2", "/dev/sdc")>>),
             HanderCfg("vdisk_fileio", <<DeviceCfg("disk2", "/tmp/img")>>)>>,
           <<DriverCfg("iscsi", 1, <<TargetCfg("iqn.t1", 1, <<>>, <<>>)>>)>>)

\* two driver entries, the second under the name of another driver
CfgTwoDrivers ==
    Config(<<>>,
           <<DriverCfg("iscsi", 0, <<TargetCfg("iqn.t1", 0, <<>>, <<>>)>>),
             DriverCfg("qla2x00t", 1, <<TargetCfg("iqn.t2", 0, <<>>, <<>>)>>)>>)

Configs ==
    {CfgBare, CfgUnknown, CfgTwoDrivers} \cup UNION {{CfgSmall(de, te), CfgNoLun(de, te), CfgOther(de, te)} :
                            de \in 0..1, te \in 0..1}

-----------------------------------------------------------------------------
(* Scst::from_cfg.  Walk lists the steps of its nested loops in the order  *)
(* the loops reach them; FromCfgStep runs the next one against the cache.   *)

RECURSIVE Concat(_)
Concat(ss) == IF Len(ss) = 0 THEN <<>> ELSE Head(ss) \o Concat(Tail(ss))

Step(k, a, b, c, n) == [k |-> k, a |-> a, b |-> b, c |-> c, n |-> n]

WalkGroup(t, gc) ==
    <<Step("group", t, gc.name, "", 0)>>
    \o [i \in 1..Len(gc.luns) |->
            Step("glun", t, gc.name, gc.luns[i].device, gc.luns[i].id)]
    \o [i \in 1..Len(gc.initiators) |-> Step("ini", t, gc.name, gc.initiators[i], 0)]

WalkTarget(tc) ==
    <<Step("target", tc.name, "", "", 0)>>
    \o [i \in 1..Len(tc.luns) |->
            Step("tlun", tc.name, tc.luns[i].device, "", tc.luns[i].id)]
    \o Concat([i \in 1..Len(tc.groups) |-> WalkGroup(tc.name, tc.groups[i])])
    \o <<Step("tenable", tc.name, "", "", tc.enabled)>>

\* a walk that applies the entries named iscsi and passes over the others
WalkDriver_by_name(dc) ==
    IF dc.name # "iscsi" THEN <<>>
    ELSE <<Step("driver", "", "", "", dc.enabled)>>
         \o Concat([i \in 1..Len(dc.targets) |-> WalkTarget(dc.targets[i])])
         \o <<Step("copy", "", "", "", 0)>>
WalkDriver(dc) ==
    <<Step("driver", "", "", "", dc.enabled)>>
    \o Concat([i \in 1..Len(dc.targets) |-> WalkTarget(dc.targets[i])])
    \o <<Step("copy", "", "", "", 0)>>

WalkHandler(hc) ==
    <<Step("handler", hc.name, "", "", 0)>>
    \o [i \in 1..Len(hc.devices) |->
            Step("device", hc.name, hc.devices[i].name, hc.devices[i].filename, 0)]

\* a walk that reconciles the drivers before the handlers
Walk_drivers_first(c) ==
    Concat([i \in 1..Len(c.drivers) |-> WalkDriver(c.drivers[i])])
    \o Concat([i \in 1..Len(c.handlers) |-> WalkHandler(c.handlers[i])])

Walk(c) ==
    Concat([i \in 1..Len(c.handlers) |-> WalkHandler(c.handlers[i])])
    \o Concat([i \in 1..Len(c.drivers) |-> WalkDriver(c.drivers[i])])

\* format!("lun {}", lc.id()): the key from_cfg looks a LUN up by
LunName(id) == "lun " \o ToString(id)

\* the lun_id that from_cfg passes to add_lun: the decimal digits of lc.id()
LunIdArg(id) == ToString(id)

\* a step that has nothing to do
Skip(self, sys) == R(self, sys, "Ok", "", {}, <<>>)

\* the outcome of one step of the walk: [c, r], the cache and the result
RunStep(c, sys, s, io, perm) ==
    LET drv == c.iscsi_driver
        put(r, cc) == [c |-> cc, r |-> r]
    IN
    CASE s.k = "handler" ->
            IF s.a \in DOMAIN c.handlers THEN put(Skip(c, sys), c)
            ELSE put(R(c, sys, "NoHandler", s.a, {}, <<>>), c)
      [] s.k = "device" ->
            LET h == c.handlers[s.a]
                r == IF s.b \notin DOMAIN h.devices
                     THEN Handler_add_device(h, sys, s.b, s.c, Options_new, <<>>, io)
                     ELSE Skip(h, sys)
            IN  put(r, [c EXCEPT !.handlers[s.a] = r.self])
      [] s.k = "driver" ->
            LET r == IF s.n = 1 THEN Driver_enable(drv, sys, io) ELSE Skip(drv, sys)
            IN  put(r, [c EXCEPT !.iscsi_driver = r.self])
      [] s.k = "target" ->
            LET r == IF s.a \notin DOMAIN drv.targets
                     THEN Driver_add_target(drv, sys, s.a, Options_new, <<>>, io, perm)
                     ELSE Skip(drv, sys)
            IN  put(r, [c EXCEPT !.iscsi_driver = r.self])
      [] s.k = "tlun" ->
            LET t == drv.targets[s.a]
                r == IF LunName(s.n) \notin DOMAIN t.luns
                     THEN Target_add_lun(t, sys, s.b, LunIdArg(s.n), Options_new, <<>>, io)
                     ELSE Skip(t, sys)
            IN  put(r, [c EXCEPT !.iscsi_driver.targets[s.a] = r.self])
      [] s.k = "group" ->
            LET t == drv.targets[s.a]
                r == IF s.b \notin DOMAIN t.ini_groups
                     THEN Target_create_ini_group(t, sys, s.b, io, perm)
                     ELSE Skip(t, sys)
            IN  put(r, [c EXCEPT !.iscsi_driver.targets[s.a] = r.self])
      [] s.k = "glun" ->
            LET g == drv.targets[s.a].ini_groups[s.b]
                r == IF LunName(s.n) \notin DOMAIN g.luns
                     THEN IniGroup_add_lun(g, sys, s.c, LunIdArg(s.n), Options_new, <<>>, io)
                     ELSE Skip(g, sys)
            IN  put(r, [c EXCEPT !.iscsi_driver.targets[s.a].ini_groups[s.b] = r.self])
      [] s.k = "ini" ->
            LET g == drv.targets[s.a].ini_groups[s.b]
                r == IF ~Contains(g.initiators, s.c)
                     THEN IniGroup_add_initiator(g, sys, s.c, io)
                     ELSE Skip(g, sys)
            IN  put(r, [c EXCEPT !.iscsi_driver.targets[s.a].ini_groups[s.b] = r.self])
      [] s.k = "tenable" ->
            LET t == drv.targets[s.a]
                r == IF s.n = 1 THEN Target_enable(t, sys, io) ELSE Skip(t, sys)
            IN  put(r, [c EXCEPT !.iscsi_driver.targets[s.a] = r.self])
      [] s.k = "copy" ->
            \* copy_driver.load: a read of the copy manager's directory
            IF io = "load" THEN put(R(c, sys, "Io", "", {}, <<>>), c)
            ELSE put(Skip(c, sys), c)

FromCfgRet(res, key) ==
    [op |-> "from_cfg", at |-> ScstRoot, arg |-> "", o |-> EmptyMap, res |-> res,
     key |-> key, bad |-> {}]

\* the call: from_cfg(&cfg) begins; with nothing to walk it returns Ok at once
FromCfgCall ==
    /\ pc = "idle"
    /\ napply < MaxApply
    /\ \E c \in Configs :
        /\ cfg' = c
        /\ todo' = Walk(c)
        /\ pc' = IF Walk(c) = <<>> THEN "idle" ELSE "from_cfg"
        /\ ret' = FromCfgRet(IF Walk(c) = <<>> THEN "Ok" ELSE "", "")
    /\ pre' = [cache |-> cache, sysfs |-> sysfs]
    /\ wlog' = <<>>
    /\ napply' = napply + 1
    /\ UNCHANGED <<sysfs, cache, ncalls, opts, ins, packed, aux>>

\* a walk that drops the error of a step and goes on to the next
FromCfgStep_keep_going ==
    /\ pc = "from_cfg"
    /\ \E io \in IOs, perm \in Orders(InitiatorNames) :
        LET o == RunStep(cache, sysfs, Head(todo), io, perm)
            last == Len(todo) = 1
        IN  /\ cache' = o.c
            /\ sysfs' = o.r.sys
            /\ wlog' = wlog \o Tag(o.r.log, o.r.res)
            /\ todo' = Tail(todo)
            /\ pc' = IF last THEN "idle" ELSE "from_cfg"
            /\ ret' = IF last THEN FromCfgRet("Ok", "") ELSE ret
    /\ UNCHANGED <<pre, cfg, ncalls, napply, opts, ins, packed, aux>>

\* the next step of the walk; an error returns it, the last step returns Ok
FromCfgStep ==
    /\ pc = "from_cfg"
    /\ \E io \in IOs, perm \in Orders(InitiatorNames) :
        LET o == RunStep(cache, sysfs, Head(todo), io, perm)
            failed == o.r.res # "Ok"
            last == Len(todo) = 1
        IN  /\ cache' = o.c
            /\ sysfs' = o.r.sys
            /\ wlog' = wlog \o Tag(o.r.log, o.r.res)
            /\ todo' = IF failed THEN todo ELSE Tail(todo)
            /\ pc' = IF failed \/ last THEN "idle" ELSE "from_cfg"
            /\ ret' = IF failed THEN FromCfgRet(o.r.res, o.r.key)
                      ELSE IF last THEN FromCfgRet("Ok", "")
                      ELSE ret
    /\ UNCHANGED <<pre, cfg, ncalls, napply, opts, ins, packed, aux>>

NextCfg == FromCfgCall \/ FromCfgStep

SpecCfg == Init /\ [][NextCfg]_vars

-----------------------------------------------------------------------------
(* The Options container on its own: a caller builds it with inserts and   *)
(* serializes it.  packed records the last serialization: the operation,   *)
(* the allow-list given, the order the HashMap iterated in, the result.     *)

PackKeys == AllowLists \cup {DeviceParams \cup TargetParams}

OptInsert ==
    /\ Len(ins) < MaxInserts
    /\ \E k \in OptKeys, v \in OptVals :
        /\ opts' = Options_insert(opts, k, v)
        /\ ins' = Append(ins, <<k, v>>)
    /\ packed' = NoPacked
    /\ UNCHANGED <<treeVars, aux>>

OptToString ==
    /\ \E order \in Orders(DOMAIN opts) :
        packed' = [op |-> "to_string", ok |-> TRUE,
                   val |-> Some(to_string(opts, order)), bad |-> {}, keys |-> {},
                   order |-> order]
    /\ UNCHANGED <<treeVars, opts, ins, aux>>

OptPack ==
    /\ \E order \in Orders(DOMAIN opts) :
        packed' = [op |-> "pack", ok |-> TRUE, val |-> pack(opts, order),
                   bad |-> {}, keys |-> {}, order |-> order]
    /\ UNCHANGED <<treeVars, opts, ins, aux>>

OptCheckPack ==
    /\ \E keys \in PackKeys, order \in Orders(DOMAIN opts) :
        LET r == check_pack(opts, keys, order) IN
        packed' = [op |-> "check_pack", ok |-> r.ok, val |-> r.val, bad |-> r.bad,
                   keys |-> keys, order |-> order]
    /\ UNCHANGED <<treeVars, opts, ins, aux>>

InitOpts == Init /\ sysfs = EmptyTree

NextOpts == OptInsert \/ OptToString \/ OptPack \/ OptCheckPack

SpecOpts == InitOpts /\ [][NextOpts]_vars

-----------------------------------------------------------------------------
(* What a call was made on.  ret.at is the root of the entity the method   *)
(* was called on; NodeAt finds that entity in a cache, CollAt the child    *)
(* collection the operation's precondition tests.                           *)

NodeAt(c, at) ==
    IF Len(at) = 3 /\ at[2] = SCST_HANDLER THEN c.handlers[at[3]]
    ELSE IF Len(at) = 3 THEN c.iscsi_driver
    ELSE IF Len(at) = 4 THEN c.iscsi_driver.targets[TargetOf(at)]
    ELSE c.iscsi_driver.targets[TargetOf(at)].ini_groups[GroupOf(at)]

CollAt(c, op, at) ==
    LET n == NodeAt(c, at) IN
    CASE op \in {"add_device", "del_device"} -> n.devices
      [] op \in {"add_target", "del_target"} -> n.targets
      [] op \in {"create_ini_group", "del_ini_group"} -> n.ini_groups
      [] op \in {"add_initiator", "del_initiator"} -> n.initiators
      [] OTHER -> n.luns

\* the keys of the collection: the keys of a map, the items of a Vec
KeysAt(c, op, at) ==
    IF op \in {"add_initiator", "del_initiator"}
    THEN Range(CollAt(c, op, at))
    ELSE DOMAIN CollAt(c, op, at)

\* a step of the model that is a mutator call
IsCall == ncalls' = ncalls + 1

AddOps == {"add_device", "add_target", "target_add_lun", "create_ini_group",
           "group_add_lun", "add_initiator"}

ExistsError(op) ==
    CASE op = "add_device" -> "DeviceExists"
      [] op = "add_target" -> "TargetExists"
      [] op = "target_add_lun" -> "TargetLunExists"
      [] op = "create_ini_group" -> "GroupExists"
      [] op = "group_add_lun" -> "GroupLunExists"
      [] op = "add_initiator" -> "GroupIniExists"

DelOps == {"del_device", "del_target", "target_del_lun", "del_ini_group",
           "group_del_lun", "del_initiator"}

NoSuchError(op) ==
    CASE op = "del_device" -> "NoDevice"
      [] op = "del_target" -> "NoTarget"
      [] op = "target_del_lun" -> "TargetNoLun"
      [] op = "del_ini_group" -> "NoGroup"
      [] op = "group_del_lun" -> "GroupNoLun"
      [] op = "del_initiator" -> "GroupNoIni"

-----------------------------------------------------------------------------
(* Claim C1: every add operation (add_device, add_target, Target.add_lun,  *)
(* create_ini_group, IniGroup.add_lun, add_initiator) called with a key    *)
(* that is already in the parent's cached collection returns the matching  *)
(* "already exists" error carrying that key, writes to no control file,    *)
(* and leaves the cache (and the kernel's tree) as they were.               *)
C1_AddExistingKeyFails ==
    [][(IsCall /\ ret'.op \in AddOps /\ ret'.arg \in KeysAt(cache, ret'.op, ret'.at))
        => /\ ret'.res = ExistsError(ret'.op)
           /\ ret'.key = ret'.arg
           /\ wlog' = <<>>
           /\ cache' = cache
           /\ sysfs' = sysfs]_vars

\* an add_initiator of an initiator the group already lists has returned
C1_Witness ==
    /\ ret.op = "add_initiator"
    /\ ret.arg \in KeysAt(cache, ret.op, ret.at)
    /\ wlog = <<>>
    /\ ret.res = "GroupIniExists"

(* Claim C2: every delete operation (del_device, del_target,               *)
(* Target.del_lun, del_ini_group, IniGroup.del_lun, del_initiator): with   *)
(* the key absent from the cache it fails with the "no such" error and     *)
(* writes nothing; with the key present and the write successful exactly   *)
(* that key leaves the collection and every other key stays with its       *)
(* entry; with the write failing the key stays.                             *)
C2_DeleteShape ==
    [][(IsCall /\ ret'.op \in DelOps)
        => LET op == ret'.op
               old == CollAt(cache, op, ret'.at)
               new == CollAt(cache', op, ret'.at)
               keys == KeysAt(cache, op, ret'.at)
               keys2 == KeysAt(cache', op, ret'.at)
           IN  IF ret'.arg \notin keys
               THEN /\ ret'.res = NoSuchError(op)
                    /\ ret'.key = ret'.arg
                    /\ wlog' = <<>>
                    /\ cache' = cache
               ELSE /\ Len(wlog') = 1
                    /\ wlog'[1].ok
                        => /\ ret'.res = "Ok"
                           /\ keys2 = keys \ {ret'.arg}
                           /\ op # "del_initiator"
                                => \A k \in keys2 : new[k] = old[k]
                    /\ ~wlog'[1].ok
                        => /\ ret'.res # "Ok"
                           /\ ret'.arg \in keys2
                           /\ cache' = cache]_vars

\* a del_target has removed one target of two from the cache
C2_Witness ==
    /\ ret.op = "del_target"
    /\ ret.res = "Ok"
    /\ Len(wlog) = 1
    /\ wlog[1].ok
    /\ ret.arg \notin DOMAIN cache.iscsi_driver.targets
    /\ DOMAIN cache.iscsi_driver.targets # {}

-----------------------------------------------------------------------------
\* the operations that take Options, and the allow-list of each
OptionOps == {"add_device", "add_target", "target_add_lun", "target_set_lun",
              "group_add_lun", "group_set_lun"}

AllowList(op) ==
    CASE op = "add_device" -> DeviceParams
      [] op = "add_target" -> TargetParams
      [] OTHER -> LunParams

-----------------------------------------------------------------------------
\* the value the inserts so far leave stored under key k: the last one given
LastInserted(k) ==
    LET i == CHOOSE j \in 1..Len(ins) :
                ins[j][1] = k /\ \A m \in (j + 1)..Len(ins) : ins[m][1] # k
    IN  ins[i][2]

InsertedKeys == {ins[i][1] : i \in 1..Len(ins)}

\* s is n items "key=value" with a ";" between consecutive items and none
\* before the first or after the last, one item for each inserted key
WellJoined(s) ==
    LET n == Cardinality(InsertedKeys) IN
    IF n = 0 THEN s = <<>>
    ELSE /\ Len(s) = 4 * n - 1
         /\ {s[4 * i - 3] : i \in 1..n} = InsertedKeys
         /\ \A i \in 1..n :
                /\ s[4 * i - 2] = "="
                /\ s[4 * i - 1] = LastInserted(s[4 * i - 3])
                /\ i < n => s[4 * i] = ";"

(* Claim C5: serializing an Options container gives one "key=value" item   *)
(* for each stored key, joined by single ";" separators with none leading  *)
(* or trailing, whatever order the keys were inserted in and whatever      *)
(* order the map yields them in; one pair gives exactly "key=value"; the   *)
(* empty container gives the empty string.                                  *)
C5_Serialization ==
    packed.op = "to_string"
        => /\ packed.val.some
           /\ WellJoined(packed.val.s)
           /\ Len(ins) = 1 => packed.val.s = <<ins[1][1], "=", ins[1][2]>>
           /\ ins = <<>> => packed.val.s = <<>>

\* three inserts, one of them replacing a value, serialized with the key
\* inserted last coming first
C5_Witness ==
    /\ packed.op = "to_string"
    /\ Len(ins) = 3
    /\ Cardinality(InsertedKeys) = 2
    /\ ins[1][1] # ins[3][1]
    /\ packed.val.s[1] = ins[3][1]
    /\ Len(packed.val.s) = 7

-----------------------------------------------------------------------------
(* What a Config describes, and whether a cache already holds it.           *)

\* the cached LUN with number id and the given device is in the LUN map m
LunLive(m, lc) ==
    \E k \in DOMAIN m : m[k].name = ToString(lc.id) /\ m[k].device = lc.device

GroupLive(t, gc) ==
    /\ gc.name \in DOMAIN t.ini_groups
    /\ \A i \in 1..Len(gc.luns) : LunLive(t.ini_groups[gc.name].luns, gc.luns[i])
    /\ \A i \in 1..Len(gc.initiators) :
            Contains(t.ini_groups[gc.name].initiators, gc.initiators[i])

TargetLive(d, tc) ==
    /\ tc.name \in DOMAIN d.targets
    /\ tc.enabled = 1 => d.targets[tc.name].enabled = 1
    /\ \A i \in 1..Len(tc.luns) : LunLive(d.targets[tc.name].luns, tc.luns[i])
    /\ \A i \in 1..Len(tc.groups) : GroupLive(d.targets[tc.name], tc.groups[i])

\* every entity the Config c describes is in the cache s, with the enabled
\* flags the Config asks for
CfgLive(s, c) ==
    /\ \A i \in 1..Len(c.handlers) :
        /\ c.handlers[i].name \in DOMAIN s.handlers
        /\ \A j \in 1..Len(c.handlers[i].devices) :
                c.handlers[i].devices[j].name
                    \in DOMAIN s.handlers[c.handlers[i].name].devices
    /\ \A i \in 1..Len(c.drivers) :
        /\ c.drivers[i].enabled = 1 => s.iscsi_driver.enabled = 1
        /\ \A j \in 1..Len(c.drivers[i].targets) :
                TargetLive(s.iscsi_driver, c.drivers[i].targets[j])

(* Claim C6: from_cfg applied to a tree whose cache already contains every *)
(* device, target, LUN, group and initiator of the Config, with the        *)
(* enabled flags it asks for, writes to no control file, returns success   *)
(* and leaves the cache unchanged.  (The one read from_cfg makes when       *)
(* nothing is missing is the reload of the copy manager; when the          *)
(* environment fails that read, from_cfg returns its Io error.)             *)
C6_Idempotent ==
    (ret.op = "from_cfg" /\ CfgLive(pre.cache, cfg))
        => /\ wlog = <<>>
           /\ cache = pre.cache
           /\ pc = "idle" => ret.res \in {"Ok", "Io"}

-----------------------------------------------------------------------------
\* every LUN map of the cache: those of the targets and those of the groups
LunMaps(s) ==
    {s.iscsi_driver.targets[t].luns : t \in DOMAIN s.iscsi_driver.targets}
    \cup UNION {{s.iscsi_driver.targets[t].ini_groups[g].luns :
                    g \in DOMAIN s.iscsi_driver.targets[t].ini_groups} :
                t \in DOMAIN s.iscsi_driver.targets}

(* Claim C10: in every reachable state each entry of a Target's or         *)
(* IniGroup's LUN map is stored under the fixed prefix followed by the     *)
(* LUN's numeric id (0 included): the key add_lun inserts and tests is the *)
(* key from_cfg looks up for the same id.                                   *)
C10_LunKeyIsPrefixAndId ==
    /\ \A m \in LunMaps(cache) : \A k \in DOMAIN m :
            \E n \in LunIds : m[k].name = ToString(n) /\ k = LunName(n)
    /\ \A n \in LunIds : LunIdArg(n) = LunName(n)

-----------------------------------------------------------------------------
(* Reading the writes of a call back.  A write to a mgmt file names its    *)
(* directory (the component before "mgmt") and carries the verb as the     *)
(* first token of the command.                                              *)

Dir(e) == SubSeq(e.file, 1, Len(e.file) - 1)
Verb(e) == e.cmd[1]
IsMgmt(e) == file_name(e.file) = "mgmt"
IsAddDevice(e) == IsMgmt(e) /\ Verb(e) = "add_device"
IsAddTarget(e) == IsMgmt(e) /\ Verb(e) = "add_target"
IsAddLun(e) == IsMgmt(e) /\ Verb(e) = "add" /\ file_name(Dir(e)) = TARGET_LUN
IsCreateGroup(e) == IsMgmt(e) /\ Verb(e) = "create"
IsAddInitiator(e) ==
    IsMgmt(e) /\ Verb(e) = "add" /\ file_name(Dir(e)) = TARGET_INITIATOR
IsAdd(e) ==
    IsAddDevice(e) \/ IsAddTarget(e) \/ IsAddLun(e) \/ IsCreateGroup(e)
        \/ IsAddInitiator(e)

\* a write below the directory of a target (its luns or ini_groups mgmt, or
\* the mgmt files of one of its groups), and below the directory of a group
UnderTarget(e) == IsMgmt(e) /\ Len(e.file) >= 6
UnderGroup(e) == IsMgmt(e) /\ Len(e.file) = 8

\* the writes of the log that are add commands, without their results
Adds(log) ==
    LET a == SelectSeq(log, IsAdd) IN
    [i \in 1..Len(a) |-> [file |-> a[i].file, cmd |-> a[i].cmd]]

IsPrefix(s, t) == Len(s) <= Len(t) /\ s = SubSeq(t, 1, Len(s))

\* the add commands of CfgSmall against an empty tree
SmallAdds ==
    LET t1 == join(DriverRoot, "iqn.t1")
        g1 == join(join(t1, TARGET_GROUP), "g1")
    IN  << [file |-> join(HandlerRoot("vdisk_blockio"), "mgmt"),
            cmd |-> <<"add_device", " ", "disk1", " ", "filename=", "/dev/sdb">>],
           [file |-> join(DriverRoot, "mgmt"), cmd |-> <<"add_target", " ", "iqn.t1">>],
           [file |-> join(join(t1, TARGET_LUN), "mgmt"),
            cmd |-> <<"add", " ", "disk1", " ", "0">>],
           [file |-> join(join(t1, TARGET_GROUP), "mgmt"),
            cmd |-> <<"create", " ", "g1">>],
           [file |-> join(join(g1, TARGET_INITIATOR), "mgmt"),
            cmd |-> <<"add", " ", "iqn.i1">>] >>

(* Claim C7: in every run of from_cfg the add commands go parent before    *)
(* child: every add_device precedes every add_target; the add_target of a  *)
(* target precedes every add of its LUNs and groups; the create of a group *)
(* precedes every add of its LUNs and initiators (a child is added only    *)
(* under a parent that was cached before the call or added earlier in it); *)
(* and for the Config with one device, one target with one LUN and one     *)
(* group with one initiator against an empty tree exactly those five adds  *)
(* are issued, each once.                                                   *)
C7_ParentBeforeChild ==
    ret.op = "from_cfg"
        => /\ \A i, j \in 1..Len(wlog) :
                (IsAddTarget(wlog[i]) /\ IsAddDevice(wlog[j])) => j < i
           /\ \A j \in 1..Len(wlog) :
                UnderTarget(wlog[j])
                    => LET t == TargetOf(wlog[j].file) IN
                       /\ \A i \in 1..Len(wlog) :
                            (IsAddTarget(wlog[i]) /\ wlog[i].cmd[3] = t) => i < j
                       /\ \/ t \in DOMAIN pre.cache.iscsi_driver.targets
                          \/ \E i \in 1..(j - 1) :
                                IsAddTarget(wlog[i]) /\ wlog[i].cmd[3] = t
           /\ \A j \in 1..Len(wlog) :
                UnderGroup(wlog[j])
                    => LET t == TargetOf(wlog[j].file)
                           g == GroupOf(wlog[j].file)
                           mine(e) == /\ IsCreateGroup(e)
                                      /\ TargetOf(e.file) = t
                                      /\ e.cmd[3] = g
                       IN
                       /\ \A i \in 1..Len(wlog) : mine(wlog[i]) => i < j
                       /\ \/ /\ t \in DOMAIN pre.cache.iscsi_driver.targets
                             /\ g \in DOMAIN pre.cache.iscsi_driver.targets[t].ini_groups
                          \/ \E i \in 1..(j - 1) : mine(wlog[i])
           /\ (pre.sysfs = EmptyTree /\ \E de, te \in 0..1 : cfg = CfgSmall(de, te))
                => /\ IsPrefix(Adds(wlog), SmallAdds)
                   /\ (pc = "idle" /\ ret.res = "Ok") => Adds(wlog) = SmallAdds

\* from_cfg has applied that Config to the empty tree, enabling the driver
\* and the target as well, and returned Ok
C7_Witness ==
    /\ ret.op = "from_cfg"
    /\ pc = "idle"
    /\ ret.res = "Ok"
    /\ pre.sysfs = EmptyTree
    /\ cfg = CfgSmall(1, 1)
    /\ Len(wlog) = 7

-----------------------------------------------------------------------------
\* the names of the targets a Config mentions
CfgTargets(c) ==
    UNION {{c.drivers[i].targets[j].name : j \in 1..Len(c.drivers[i].targets)} :
            i \in 1..Len(c.drivers)}

\* every entry of the map old is in the map new, as it was
KeptIn(old, new) == \A k \in DOMAIN old : k \in DOMAIN new /\ new[k] = old[k]

\* every device, target, LUN, group and initiator of the cache a is in b
Preserved(a, b) ==
    /\ \A h \in DOMAIN a.handlers :
        /\ h \in DOMAIN b.handlers
        /\ KeptIn(a.handlers[h].devices, b.handlers[h].devices)
    /\ \A t \in DOMAIN a.iscsi_driver.targets :
        /\ t \in DOMAIN b.iscsi_driver.targets
        /\ LET ta == a.iscsi_driver.targets[t]
               tb == b.iscsi_driver.targets[t]
           IN  /\ KeptIn(ta.luns, tb.luns)
               /\ \A g \in DOMAIN ta.ini_groups :
                    /\ g \in DOMAIN tb.ini_groups
                    /\ KeptIn(ta.ini_groups[g].luns, tb.ini_groups[g].luns)
                    /\ IsPrefix(ta.ini_groups[g].initiators,
                                tb.ini_groups[g].initiators)

(* Claim C8: from_cfg is strictly additive.  No write of a run is a        *)
(* delete, remove, clear, move or replace command or writes anything but   *)
(* "1" to an enabled file; every device, target, LUN, group and initiator  *)
(* cached before the call is still cached, and a target the Config does    *)
(* not mention is cached exactly as it was, during the run and after it,   *)
(* whether it succeeds or fails.                                            *)
C8_StrictlyAdditive ==
    ret.op = "from_cfg"
        => /\ \A i \in 1..Len(wlog) :
                \/ IsAdd(wlog[i])
                \/ file_name(wlog[i].file) = "enabled" /\ wlog[i].cmd = <<"1">>
           /\ Preserved(pre.cache, cache)
           /\ \A t \in DOMAIN pre.cache.iscsi_driver.targets \ CfgTargets(cfg) :
                cache.iscsi_driver.targets[t] = pre.cache.iscsi_driver.targets[t]

\* from_cfg has added the second target next to the one the tree held
C8_Witness ==
    /\ ret.op = "from_cfg"
    /\ pc = "idle"
    /\ pre.sysfs = SmallTree
    /\ \E i \in 1..Len(wlog) : IsAddTarget(wlog[i]) /\ wlog[i].res = "Ok"
    /\ DOMAIN cache.iscsi_driver.targets = {"iqn.t1", "iqn.t2"}
    /\ "iqn.t1" \notin CfgTargets(cfg)

-----------------------------------------------------------------------------
\* the entity an add command names is in the kernel's tree sys and in the
\* cache c
Created(e, sys, c) ==
    LET drv == c.iscsi_driver
        t == TargetOf(e.file)
        g == GroupOf(e.file)
        luns == IF UnderGroup(e) THEN drv.targets[t].ini_groups[g].luns
                ELSE drv.targets[t].luns
    IN
    CASE IsAddDevice(e) ->
            /\ e.cmd[3] \in sys.devices[HandlerOf(e.file)]
            /\ e.cmd[3] \in DOMAIN c.handlers[HandlerOf(e.file)].devices
      [] IsAddTarget(e) ->
            e.cmd[3] \in DOMAIN sys.targets /\ e.cmd[3] \in DOMAIN drv.targets
      [] IsAddLun(e) ->
            /\ e.cmd[5] \in DOMAIN SysLuns(sys, Dir(e))
            /\ \E k \in DOMAIN luns :
                    luns[k].name = e.cmd[5] /\ luns[k].device = e.cmd[3]
      [] IsCreateGroup(e) ->
            /\ e.cmd[3] \in DOMAIN sys.targets[t].groups
            /\ e.cmd[3] \in DOMAIN drv.targets[t].ini_groups
      [] IsAddInitiator(e) ->
            /\ e.cmd[3] \in sys.targets[t].groups[g].inis
            /\ Contains(drv.targets[t].ini_groups[g].initiators, e.cmd[3])
      [] OTHER -> TRUE

\* the errors a step of each kind can return
StepErrors(k) ==
    CASE k = "handler" -> {"NoHandler"}
      [] k = "device" -> {"DeviceAddFail", "Io"}
      [] k = "driver" -> {"Io"}
      [] k = "target" -> {"Io"}
      [] k = "tlun" -> {"TargetLunExists", "TargetAddLunFail", "Io"}
      [] k = "group" -> {"Io"}
      [] k = "glun" -> {"GroupLunExists", "GroupAddLunFail", "Io"}
      [] k = "ini" -> {"GroupAddIniFail"}
      [] k = "tenable" -> {"Io"}
      [] k = "copy" -> {"Io"}

(* Claim C9: when a step of from_cfg fails, from_cfg returns that error,   *)
(* issues no command after the failing step (a failed write is the last    *)
(* write of the run and the rest of the walk is not run), and undoes       *)
(* nothing: every entity an earlier step of the call created is in the     *)
(* kernel's tree and in the cache.                                          *)
C9_FirstErrorAborts ==
    ret.op = "from_cfg"
        => /\ \A i \in 1..Len(wlog) :
                wlog[i].res # "Ok"
                    => /\ i = Len(wlog)
                       /\ pc = "idle"
                       /\ ret.res = wlog[i].res
           /\ (pc = "idle" /\ ret.res # "Ok")
                => /\ todo # <<>>
                   /\ ret.res \in StepErrors(Head(todo).k)
           /\ (pc = "idle" /\ ret.res = "Ok") => todo = <<>>
           /\ \A i \in 1..Len(wlog) :
                wlog[i].res = "Ok" => Created(wlog[i], sysfs, cache)

\* from_cfg has failed at its fifth command, after four adds that stay
C9_Witness ==
    /\ ret.op = "from_cfg"
    /\ pc = "idle"
    /\ ret.res = "GroupAddIniFail"
    /\ Len(wlog) = 5
    /\ IsAddDevice(wlog[1])
    /\ \A i \in 1..4 : wlog[i].res = "Ok" /\ Created(wlog[i], sysfs, cache)

-----------------------------------------------------------------------------
(* read_fl: the first line of an attribute file.  The content of a file is *)
(* the sequence of its characters; "\n" is the newline.                     *)

Chars == {"a", "1", "\n"}

\* every file content of at most MaxFileLen characters
Files == UNION {[1..n -> Chars] : n \in 0..MaxFileLen}

\* the position of the first item of s equal to x, 0 when there is none
Find(s, x) ==
    IF ~Contains(s, x) THEN 0
    ELSE CHOOSE j \in 1..Len(s) : s[j] = x /\ \A m \in 1..(j - 1) : s[m] # x

\* str::split(sep): the pieces between the separators, at least one piece
RECURSIVE split(_, _)
split(s, sep) ==
    IF Find(s, sep) = 0 THEN <<s>>
    ELSE <<SubSeq(s, 1, Find(s, sep) - 1)>>
            \o split(SubSeq(s, Find(s, sep) + 1, Len(s)), sep)

\* a read_fl that only drops the newlines at the end of the content
RECURSIVE trim_end(_)
trim_end(s) ==
    IF Len(s) > 0 /\ s[Len(s)] = "\n" THEN trim_end(SubSeq(s, 1, Len(s) - 1)) ELSE s

read_fl_trimmed(content, io) ==
    IF io = "load" THEN [ok |-> FALSE, val |-> <<>>]
    ELSE [ok |-> TRUE, val |-> trim_end(content)]

\* read_to_string(path)?, then split('\n'), get(0), unwrap_or("")
read_fl(content, io) ==
    IF io = "load" THEN [ok |-> FALSE, val |-> <<>>]
    ELSE LET parts == split(content, "\n") IN
         [ok |-> TRUE, val |-> IF Len(parts) >= 1 THEN parts[1] ELSE <<>>]

ReadFl ==
    /\ \E io \in {"ok", "load"} :
        LET r == read_fl(text, io) IN
        line' = [op |-> "read_fl", ok |-> r.ok, val |-> r.val]
    /\ UNCHANGED <<treeVars, optVars, text, doc, parsed, roots, reads, broken>>

InitReadFl ==
    /\ InitTree /\ sysfs = EmptyTree
    /\ InitOptions /\ InitDoc /\ InitRoots /\ InitBroken
    /\ text \in Files
    /\ line = NoLine

NextReadFl == ReadFl

SpecReadFl == InitReadFl /\ [][NextReadFl]_vars

(* Claim C11: for every file content read_fl returns exactly the           *)
(* characters before the first newline: the whole content when it has no   *)
(* newline, the empty string for an empty file, and never a newline.        *)
C11_FirstLine ==
    (line.op = "read_fl" /\ line.ok)
        => /\ IsPrefix(line.val, text)
           /\ "\n" \notin Range(line.val)
           /\ Len(line.val) = Len(text) \/ text[Len(line.val) + 1] = "\n"
           /\ Find(text, "\n") = 0 => line.val = text
           /\ text = <<>> => line.val = <<>>

\* a file of three lines has been read
C11_Witness ==
    /\ line.op = "read_fl"
    /\ line.ok
    /\ Len(text) >= 4
    /\ text[2] = "\n"
    /\ text[4] = "\n"
    /\ line.val = <<text[1]>>

-----------------------------------------------------------------------------
(* Configuration documents.  A document is a mapping from the keys that    *)
(* are present to their values; a value is a mapping, a sequence or a      *)
(* scalar.  A scalar carries its text and whether it is written in quotes: *)
(* a number is a plain scalar of decimal digits.  The Config that          *)
(* Config::from builds has its BTreeMaps as functions from key to entry.    *)

Nums == 0..MaxNum

Plain(t) == [quoted |-> FALSE, text |-> t]
Quoted(t) == [quoted |-> TRUE, text |-> t]

Ok(v) == [ok |-> TRUE, v |-> v]
Err == [ok |-> FALSE, v |-> <<>>]

\* a String field takes the text of any scalar
de_str(x) == Ok(x.text)

\* an integer field takes a plain scalar that is the decimal form of a number
de_num(x) ==
    IF ~x.quoted /\ \E n \in Nums : ToString(n) = x.text
    THEN Ok(CHOOSE n \in Nums : ToString(n) = x.text)
    ELSE Err

\* the fields of the structs of config.rs, by struct
Fields ==
    {<<"Config", "version">>, <<"Config", "handlers">>, <<"Config", "drivers">>,
     <<"HanderCfg", "name">>, <<"HanderCfg", "devices">>,
     <<"DeviceCfg", "name">>, <<"DeviceCfg", "filename">>, <<"DeviceCfg", "size">>,
     <<"DriverCfg", "name">>, <<"DriverCfg", "enabled">>, <<"DriverCfg", "targets">>,
     <<"TargetCfg", "name">>, <<"TargetCfg", "enabled">>,
     <<"TargetCfg", "rel_tgt_id">>, <<"TargetCfg", "luns">>, <<"TargetCfg", "groups">>,
     <<"IniGroupCfg", "name">>, <<"IniGroupCfg", "luns">>,
     <<"IniGroupCfg", "initiators">>,
     <<"LunCfg", "id">>, <<"LunCfg", "device">>}

SerdeDefault_devices_required == Fields \ {<<"HanderCfg", "devices">>}

\* the fields that carry #[serde(default)]: every one of them
SerdeDefault == Fields

\* a field whose key is absent: its Default when the field has
\* serde(default), an error otherwise
absent_field(ty, f, default) ==
    IF <<ty, f>> \in SerdeDefault THEN Ok(default) ELSE Err

\* a BTreeMap or a Vec of entries, rs holding the result of each entry:
\* every entry has to deserialize
collect(rs) ==
    IF \A k \in DOMAIN rs : rs[k].ok
    THEN Ok([k \in DOMAIN rs |-> rs[k].v])
    ELSE Err

de_LunCfg(d) ==
    LET id == IF "id" \in DOMAIN d THEN de_num(d.id)
            ELSE absent_field("LunCfg", "id", 0)
        device == IF "device" \in DOMAIN d THEN de_str(d.device)
            ELSE absent_field("LunCfg", "device", "")
    IN  IF id.ok /\ device.ok THEN Ok([id |-> id.v, device |-> device.v]) ELSE Err

de_luns(d) == collect([k \in DOMAIN d |-> de_LunCfg(d[k])])
de_strs(d) == collect([k \in DOMAIN d |-> de_str(d[k])])

de_IniGroupCfg(d) ==
    LET name == IF "name" \in DOMAIN d THEN de_str(d.name)
            ELSE absent_field("IniGroupCfg", "name", "")
        luns == IF "luns" \in DOMAIN d THEN de_luns(d.luns)
            ELSE absent_field("IniGroupCfg", "luns", <<>>)
        initiators == IF "initiators" \in DOMAIN d THEN de_strs(d.initiators)
            ELSE absent_field("IniGroupCfg", "initiators", <<>>)
    IN  IF name.ok /\ luns.ok /\ initiators.ok
        THEN Ok([name |-> name.v, luns |-> luns.v, initiators |-> initiators.v])
        ELSE Err

de_groups(d) == collect([k \in DOMAIN d |-> de_IniGroupCfg(d[k])])

de_TargetCfg(d) ==
    LET name == IF "name" \in DOMAIN d THEN de_str(d.name)
            ELSE absent_field("TargetCfg", "name", "")
        enabled == IF "enabled" \in DOMAIN d THEN de_num(d.enabled)
            ELSE absent_field("TargetCfg", "enabled", 0)
        rel_tgt_id == IF "rel_tgt_id" \in DOMAIN d THEN de_num(d.rel_tgt_id)
            ELSE absent_field("TargetCfg", "rel_tgt_id", 0)
        luns == IF "luns" \in DOMAIN d THEN de_luns(d.luns)
            ELSE absent_field("TargetCfg", "luns", <<>>)
        groups == IF "groups" \in DOMAIN d THEN de_groups(d.groups)
            ELSE absent_field("TargetCfg", "groups", EmptyMap)
    IN  IF name.ok /\ enabled.ok /\ rel_tgt_id.ok /\ luns.ok /\ groups.ok
        THEN Ok([name |-> name.v, enabled |-> enabled.v,
                 rel_tgt_id |-> rel_tgt_id.v, luns |-> luns.v, groups |-> groups.v])
        ELSE Err

de_targets(d) == collect([k \in DOMAIN d |-> de_TargetCfg(d[k])])

de_DriverCfg(d) ==
    LET name == IF "name" \in DOMAIN d THEN de_str(d.name)
            ELSE absent_field("DriverCfg", "name", "")
        enabled == IF "enabled" \in DOMAIN d THEN de_num(d.enabled)
            ELSE absent_field("DriverCfg", "enabled", 0)
        targets == IF "targets" \in DOMAIN d THEN de_targets(d.targets)
            ELSE absent_field("DriverCfg", "targets", EmptyMap)
    IN  IF name.ok /\ enabled.ok /\ targets.ok
        THEN Ok([name |-> name.v, enabled |-> enabled.v, targets |-> targets.v])
        ELSE Err

de_drivers(d) == collect([k \in DOMAIN d |-> de_DriverCfg(d[k])])

de_DeviceCfg(d) ==
    LET name == IF "name" \in DOMAIN d THEN de_str(d.name)
            ELSE absent_field("DeviceCfg", "name", "")
        filename == IF "filename" \in DOMAIN d THEN de_str(d.filename)
            ELSE absent_field("DeviceCfg", "filename", "")
        size == IF "size" \in DOMAIN d THEN de_num(d.size)
            ELSE absent_field("DeviceCfg", "size", 0)
    IN  IF name.ok /\ filename.ok /\ size.ok
        THEN Ok([name |-> name.v, filename |-> filename.v, size |-> size.v])
        ELSE Err

de_devices(d) == collect([k \in DOMAIN d |-> de_DeviceCfg(d[k])])

de_HanderCfg(d) ==
    LET name == IF "name" \in DOMAIN d THEN de_str(d.name)
            ELSE absent_field("HanderCfg", "name", "")
        devices == IF "devices" \in DOMAIN d THEN de_devices(d.devices)
            ELSE absent_field("HanderCfg", "devices", EmptyMap)
    IN  IF name.ok /\ devices.ok
        THEN Ok([name |-> name.v, devices |-> devices.v])
        ELSE Err

de_handlers(d) == collect([k \in DOMAIN d |-> de_HanderCfg(d[k])])

\* Config::from: serde_yml::from_str::<Config>(s)
Config_from(d) ==
    LET version == IF "version" \in DOMAIN d THEN de_str(d.version)
            ELSE absent_field("Config", "version", "")
        handlers == IF "handlers" \in DOMAIN d THEN de_handlers(d.handlers)
            ELSE absent_field("Config", "handlers", EmptyMap)
        drivers == IF "drivers" \in DOMAIN d THEN de_drivers(d.drivers)
            ELSE absent_field("Config", "drivers", EmptyMap)
    IN  IF version.ok /\ handlers.ok /\ drivers.ok
        THEN Ok([version |-> version.v, handlers |-> handlers.v,
                 drivers |-> drivers.v])
        ELSE Err

\* the mapping r of a struct ty without the keys named in missing
Sub(ty, r, missing) ==
    [f \in {g \in DOMAIN r : <<ty, g>> \notin missing} |-> r[f]]

\* a document with one handler, device, driver, target, group and LUN, as
\* in test_config_from_yaml, written without the fields in missing
DocWithout(missing) ==
    LET lun == Sub("LunCfg", [id |-> Plain("1"), device |-> Plain("disk1")], missing)
        group == Sub("IniGroupCfg",
                     [name |-> Plain("g1"), luns |-> <<lun>>,
                      initiators |-> <<Plain("iqn.i1")>>], missing)
        target == Sub("TargetCfg",
                      [name |-> Plain("iqn.t1"), enabled |-> Plain("1"),
                       rel_tgt_id |-> Plain("1"), luns |-> <<lun>>,
                       groups |-> [k \in {"g1"} |-> group]], missing)
        driver == Sub("DriverCfg",
                      [name |-> Plain("iscsi"), enabled |-> Plain("1"),
                       targets |-> [k \in {"iqn.t1"} |-> target]], missing)
        device == Sub("DeviceCfg",
                      [name |-> Plain("disk1"), filename |-> Plain("/dev/sdb"),
                       size |-> Plain("1")], missing)
        handler == Sub("HanderCfg",
                       [name |-> Plain("vdisk_blockio"),
                        devices |-> [k \in {"disk1"} |-> device]], missing)
    IN  Sub("Config",
            [version |-> Plain("3.7.0"),
             handlers |-> [k \in {"vdisk_blockio"} |-> handler],
             drivers |-> [k \in {"iscsi"} |-> driver]], missing)

RECURSIVE UpTo(_)
UpTo(n) ==
    IF n = 0 THEN {{}}
    ELSE UpTo(n - 1) \cup {m \cup {f} : m \in UpTo(n - 1), f \in Fields}

SparseDocs == {DocWithout(missing) : missing \in UpTo(MaxMissing)}

\* Config::from on the document at hand
ParseCfg ==
    /\ parsed.op = ""
    /\ LET r == Config_from(doc)
       IN  parsed' = [op |-> "from", ok |-> r.ok, cfg |-> r.v]
    /\ UNCHANGED <<treeVars, optVars, text, line, doc, roots, reads, broken>>

InitCfgDoc ==
    /\ InitTree
    /\ InitOptions
    /\ InitRead
    /\ InitRoots
    /\ InitBroken
    /\ doc \in SparseDocs
    /\ parsed = NoParsed

-----------------------------------------------------------------------------
(* to_cfg and to_yml.  The attribute files the cache model leaves out (the *)
(* version, a device's filename and size, a target's rel_tgt_id) hold      *)
(* whatever the kernel wrote: a names one value for each.  lorder is the   *)
(* order in which a HashMap of LUNs is iterated.                           *)

Attrs ==
    [version : {"", "3.7.0"}, filename : {"", "/dev/sdb"}, size : {0, MaxNum},
     rel_tgt_id : {0, 1}]

\* the numeric id of a LUN: the number its directory is named by
Lun_id(lun) == CHOOSE n \in Nums : ToString(n) = lun.name

LunCfg_from(lun) == [id |-> Lun_id(lun), device |-> lun.device]

\* the LUNs of a map, converted, as a Vec in iteration order
LunCfgs(luns, lorder) ==
    LET ks == SelectSeq(lorder, LAMBDA k : k \in DOMAIN luns)
    IN  [i \in 1..Len(ks) |-> LunCfg_from(luns[ks[i]])]

IniGroupCfg_from(group, lorder) ==
    [name |-> group.name,
     luns |-> LunCfgs(group.luns, lorder),
     initiators |-> group.initiators]

\* a collection of converted entries as a BTreeMap keyed by entry.name
ByName(S) == [n \in {x.name : x \in S} |-> CHOOSE x \in S : x.name = n]

TargetCfg_from(target, a, lorder) ==
    [name |-> target.name,
     enabled |-> target.enabled,
     rel_tgt_id |-> a.rel_tgt_id,
     luns |-> LunCfgs(target.luns, lorder),
     groups |-> ByName({IniGroupCfg_from(target.ini_groups[g], lorder) :
                            g \in DOMAIN target.ini_groups})]

DriverCfg_from(driver, a, lorder) ==
    [name |-> driver.name,
     enabled |-> driver.enabled,
     targets |-> ByName({TargetCfg_from(driver.targets[t], a, lorder) :
                            t \in DOMAIN driver.targets})]

DeviceCfg_from(device, a) ==
    [name |-> device.name, filename |-> a.filename, size |-> a.size]

HanderCfg_from(handler, a) ==
    [name |-> handler.name,
     devices |-> ByName({DeviceCfg_from(handler.devices[d], a) :
                            d \in DOMAIN handler.devices})]

Config_new(handlers, drivers, version, a, lorder) ==
    [version |-> version,
     handlers |-> ByName({HanderCfg_from(h, a) : h \in handlers}),
     drivers |-> ByName({DriverCfg_from(d, a, lorder) : d \in drivers})]

to_cfg(self, a, lorder) ==
    Config_new({self.handlers[h] : h \in DOMAIN self.handlers},
               {self.iscsi_driver}, a.version, a, lorder)

\* a string is written in quotes when its plain form would read as
\* something else: the empty string, or the digits of a number
ser_str(x) ==
    IF x = "" \/ \E n \in Nums : ToString(n) = x THEN Quoted(x) ELSE Plain(x)

ser_num_quoted(n) == Quoted(ToString(n))

\* a number is written as its decimal digits
ser_num(n) == Plain(ToString(n))

ser_LunCfg(c) == [id |-> ser_num(c.id), device |-> ser_str(c.device)]

ser_IniGroupCfg(c) ==
    [name |-> ser_str(c.name),
     luns |-> [k \in DOMAIN c.luns |-> ser_LunCfg(c.luns[k])],
     initiators |-> [k \in DOMAIN c.initiators |-> ser_str(c.initiators[k])]]

ser_TargetCfg(c) ==
    [name |-> ser_str(c.name),
     enabled |-> ser_num(c.enabled),
     rel_tgt_id |-> ser_num(c.rel_tgt_id),
     luns |-> [k \in DOMAIN c.luns |-> ser_LunCfg(c.luns[k])],
     groups |-> [k \in DOMAIN c.groups |-> ser_IniGroupCfg(c.groups[k])]]

ser_DriverCfg(c) ==
    [name |-> ser_str(c.name),
     enabled |-> ser_num(c.enabled),
     targets |-> [k \in DOMAIN c.targets |-> ser_TargetCfg(c.targets[k])]]

ser_DeviceCfg(c) ==
    [name |-> ser_str(c.name),
     filename |-> ser_str(c.filename),
     size |-> ser_num(c.size)]

ser_HanderCfg(c) ==
    [name |-> ser_str(c.name), devices |-> [k \in DOMAIN c.devices |-> ser_DeviceCfg(c.devices[k])]]

\* Config::to_yml: serde_yml::to_string(self), every field written
to_yml(c) ==
    [version |-> ser_str(c.version),
     handlers |-> [k \in DOMAIN c.handlers |-> ser_HanderCfg(c.handlers[k])],
     drivers |-> [k \in DOMAIN c.drivers |-> ser_DriverCfg(c.drivers[k])]]

\* scst.to_cfg().to_yml() on the loaded tree
ToYml ==
    /\ cfg = NoCfg
    /\ parsed.op = ""
    /\ \E a \in Attrs, lorder \in Orders(LunDirs) :
        /\ cfg' = to_cfg(cache, a, lorder)
        /\ doc' = to_yml(cfg')
    /\ UNCHANGED <<sysfs, cache, ret, wlog, pre, pc, todo, ncalls, napply,
                   optVars, text, line, parsed, roots, reads, broken>>

NextCfgDoc ==
    \/ ParseCfg
    \/ ToYml

SpecCfgDoc == InitCfgDoc /\ [][NextCfgDoc]_vars

----
(* C12: parsing with missing optional fields *)

\* the keys of the mapping under field f of d, none when the field is absent
KeysOf(d, f) == IF f \in DOMAIN d THEN DOMAIN d[f] ELSE {}

Absent(d, f) == f \notin DOMAIN d

\* every LUN written in the list ls without id or device parsed to 0 or ""
LunDefaults(ls, c) ==
    \A i \in DOMAIN ls :
        /\ Absent(ls[i], "id") => c[i].id = 0
        /\ Absent(ls[i], "device") => c[i].device = ""

GroupDefaults(g, c) ==
    /\ Absent(g, "luns") => c.luns = <<>>
    /\ Absent(g, "initiators") => c.initiators = <<>>
    /\ ~Absent(g, "luns") => DOMAIN c.luns = DOMAIN g.luns /\ LunDefaults(g.luns, c.luns)

TargetDefaults(t, c) ==
    /\ Absent(t, "enabled") => c.enabled = 0
    /\ Absent(t, "rel_tgt_id") => c.rel_tgt_id = 0
    /\ Absent(t, "luns") => c.luns = <<>>
    /\ Absent(t, "groups") => c.groups = EmptyMap
    /\ ~Absent(t, "luns") => DOMAIN c.luns = DOMAIN t.luns /\ LunDefaults(t.luns, c.luns)
    /\ DOMAIN c.groups = KeysOf(t, "groups")
    /\ \A g \in KeysOf(t, "groups") : GroupDefaults(t.groups[g], c.groups[g])

DriverDefaults(d, c) ==
    /\ Absent(d, "enabled") => c.enabled = 0
    /\ Absent(d, "targets") => c.targets = EmptyMap
    /\ DOMAIN c.targets = KeysOf(d, "targets")
    /\ \A t \in KeysOf(d, "targets") : TargetDefaults(d.targets[t], c.targets[t])

HandlerDefaults(h, c) ==
    /\ Absent(h, "devices") => c.devices = EmptyMap
    /\ DOMAIN c.devices = KeysOf(h, "devices")

ConfigDefaults(d, c) ==
    /\ Absent(d, "version") => c.version = ""
    /\ Absent(d, "handlers") => c.handlers = EmptyMap
    /\ Absent(d, "drivers") => c.drivers = EmptyMap
    /\ DOMAIN c.handlers = KeysOf(d, "handlers")
    /\ DOMAIN c.drivers = KeysOf(d, "drivers")
    /\ \A h \in KeysOf(d, "handlers") : HandlerDefaults(d.handlers[h], c.handlers[h])
    /\ \A r \in KeysOf(d, "drivers") : DriverDefaults(d.drivers[r], c.drivers[r])

\* C12: a document written without some of its optional fields parses, and
\* each field that is absent comes out as its empty or zero default, at every
\* level of the document.
C12_MissingFieldsDefault ==
    (parsed.op = "from" /\ cfg = NoCfg) =>
        /\ parsed.ok
        /\ ConfigDefaults(doc, parsed.cfg)

\* a handler whose devices key is absent has parsed to no devices
C12_Witness ==
    /\ parsed.op = "from"
    /\ cfg = NoCfg
    /\ parsed.ok
    /\ ~Absent(doc, "handlers")
    /\ Absent(doc.handlers["vdisk_blockio"], "devices")
    /\ ~Absent(doc, "drivers")
    /\ Absent(doc.drivers["iscsi"], "enabled")
    /\ parsed.cfg.handlers["vdisk_blockio"].devices = EmptyMap
    /\ parsed.cfg.drivers["iscsi"].enabled = 0

----
(* C13: to_cfg, to_yml and Config::from round trip *)

\* C13: the text that to_yml writes for the Config built from the loaded
\* tree parses, and the Config parsed from it equals the Config that was
\* written, field by field at every level.
C13_RoundTrip ==
    (parsed.op = "from" /\ cfg # NoCfg) =>
        /\ parsed.ok
        /\ parsed.cfg = cfg

\* a tree with devices, LUNs, groups and initiators and an empty version
\* has been written and read back
C13_Witness ==
    /\ parsed.op = "from"
    /\ cfg # NoCfg
    /\ sysfs = FullTree
    /\ cfg.version = ""
    /\ doc.version.quoted
    /\ Len(cfg.drivers["iscsi"].targets["iqn.t1"].luns) = Cardinality(LunDirs)
    /\ cfg.drivers["iscsi"].targets["iqn.t1"].groups["g1"].initiators # <<>>
    /\ DOMAIN cfg.handlers["vdisk_blockio"].devices # {}
    /\ parsed.cfg.drivers["iscsi"].targets["iqn.t1"].luns[1].device = "disk1"

-----------------------------------------------------------------------------
(* Scst::init and the loads with failing reads.  roots holds the candidate *)
(* root paths that exist.  broken holds the entity directories, written    *)
(* relative to the root, whose first attribute read fails: the load of     *)
(* such a directory returns an error after root and name have been set.    *)
(* reads lists the file-system accesses of the call.                       *)

SCST_ROOT_OLD == <<"sys", "kernel", "scst_tgt">>
SCST_ROOT_NEW == <<"sys", "devices", "scst">>
Candidates == {SCST_ROOT_OLD, SCST_ROOT_NEW}

Loaded(self) == [ok |-> TRUE, self |-> self]
Failed(self) == [ok |-> FALSE, self |-> self]

Device_try_load(path, bad) ==
    IF path \in bad THEN Failed([root |-> path, name |-> file_name(path)])
    ELSE Loaded(Device_load(path))

Lun_try_load(sysluns, path, bad) ==
    IF path \in bad
    THEN Failed([root |-> path, name |-> file_name(path), device |-> ""])
    ELSE Loaded(Lun_load(sysluns, path))

\* lun.load(entry.path()).ok(); Some((lun.name().to_string(), lun))
Luns_try_load(sysluns, lunsdir, bad) ==
    LET L(d) == Lun_try_load(sysluns, join(lunsdir, d), bad).self IN
    [k \in {L(d).name : d \in DOMAIN sysluns} |->
        L(CHOOSE d \in DOMAIN sysluns : L(d).name = k)]

IniGroup_try_load(sg, path, perm, bad) ==
    IF path \in bad
    THEN Failed([root |-> path, name |-> file_name(path),
                 luns |-> EmptyMap, initiators |-> <<>>])
    ELSE Loaded([root |-> path,
                 name |-> file_name(path),
                 luns |-> Luns_try_load(sg.luns, join(path, TARGET_LUN), bad),
                 initiators |-> SelectSeq(perm, LAMBDA i : i \in sg.inis)])

Target_try_load(st, path, perm, bad) ==
    IF path \in bad
    THEN Failed([root |-> path, name |-> file_name(path), enabled |-> 0,
                 luns |-> EmptyMap, ini_groups |-> EmptyMap])
    ELSE Loaded([root |-> path,
                 name |-> file_name(path),
                 enabled |-> st.enabled,
                 luns |-> Luns_try_load(st.luns, join(path, TARGET_LUN), bad),
                 ini_groups |->
                    [g \in DOMAIN st.groups |->
                        IniGroup_try_load(st.groups[g],
                            join(join(path, TARGET_GROUP), g), perm, bad).self]])

Driver_default == [root |-> <<>>, name |-> "", enabled |-> 0, targets |-> EmptyMap]

Driver_try_load(sys, path, perm, bad) ==
    IF path \in bad
    THEN Failed([root |-> path, name |-> file_name(path), enabled |-> 0,
                 targets |-> EmptyMap])
    ELSE Loaded([root |-> path,
                 name |-> file_name(path),
                 enabled |-> sys.enabled,
                 targets |->
                    [t \in DOMAIN sys.targets |->
                        Target_try_load(sys.targets[t], join(path, t), perm, bad).self]])

Handler_try_load(sys, path, bad) ==
    IF path \in bad
    THEN Failed([root |-> path, name |-> file_name(path), devices |-> EmptyMap])
    ELSE Loaded([root |-> path,
                 name |-> file_name(path),
                 devices |->
                    [d \in sys.devices[file_name(path)] |->
                        Device_try_load(join(path, d), bad).self]])

Scst_default(root) ==
    [root |-> root, handlers |-> EmptyMap, iscsi_driver |-> Driver_default]

\* Scst::load: the version read fails when the root itself is in bad; a
\* handler that fails is kept, a driver that fails ends the load
Scst_try_load(sys, root, perm, bad) ==
    LET handlers ==
            [h \in DOMAIN sys.devices |->
                Handler_try_load(sys, join(join(root, SCST_HANDLER), h), bad).self]
        driver == Driver_try_load(sys, join(join(root, SCST_DRIVER), "iscsi"), perm, bad)
    IN  IF root \in bad THEN [res |-> "Io", self |-> Scst_default(root)]
        ELSE IF ~driver.ok
        THEN [res |-> "Unknown",
              self |-> [Scst_default(root) EXCEPT !.handlers = handlers]]
        ELSE [res |-> "Ok",
              self |-> [root |-> root, handlers |-> handlers,
                        iscsi_driver |-> driver.self]]

Probe(path) == [op |-> "exists", path |-> path]
Read(path) == [op |-> "load", path |-> path]

Scst_init_new_first(exist, sys, perm, rel) ==
    LET root == IF SCST_ROOT_NEW \in exist THEN SCST_ROOT_NEW ELSE SCST_ROOT_OLD
        probes == IF SCST_ROOT_NEW \in exist THEN <<Probe(SCST_ROOT_NEW)>>
                  ELSE <<Probe(SCST_ROOT_NEW), Probe(SCST_ROOT_OLD)>>
        l == Scst_try_load(sys, root, perm, {root \o r : r \in rel})
    IN  IF root \notin exist
        THEN [res |-> "NoModule", self |-> Scst_default(<<>>), reads |-> probes]
        ELSE [res |-> l.res, self |-> l.self, reads |-> Append(probes, Read(root))]

\* Scst::init: the old root if it exists, else the new one, else NoModule
Scst_init(exist, sys, perm, rel) ==
    LET root == IF SCST_ROOT_OLD \in exist THEN SCST_ROOT_OLD ELSE SCST_ROOT_NEW
        probes == IF SCST_ROOT_OLD \in exist THEN <<Probe(SCST_ROOT_OLD)>>
                  ELSE <<Probe(SCST_ROOT_OLD), Probe(SCST_ROOT_NEW)>>
        l == Scst_try_load(sys, root, perm, {root \o r : r \in rel})
    IN  IF root \notin exist
        THEN [res |-> "NoModule", self |-> Scst_default(<<>>), reads |-> probes]
        ELSE [res |-> l.res, self |-> l.self, reads |-> Append(probes, Read(root))]

\* the entity directories of a kernel tree, relative to the root
LunPaths(lunsdir, sysluns) == {join(lunsdir, d) : d \in DOMAIN sysluns}

GroupPaths(dir, sg) == {dir} \cup LunPaths(join(dir, TARGET_LUN), sg.luns)

TargetPaths(dir, st) ==
    {dir} \cup LunPaths(join(dir, TARGET_LUN), st.luns)
          \cup UNION {GroupPaths(join(join(dir, TARGET_GROUP), g), st.groups[g]) :
                        g \in DOMAIN st.groups}

EntityPaths(sys) ==
    {<<>>, <<SCST_DRIVER, "iscsi">>}
    \cup {<<SCST_HANDLER, h>> : h \in DOMAIN sys.devices}
    \cup UNION {{<<SCST_HANDLER, h, d>> : d \in sys.devices[h]} : h \in DOMAIN sys.devices}
    \cup UNION {TargetPaths(<<SCST_DRIVER, "iscsi", t>>, sys.targets[t]) :
                    t \in DOMAIN sys.targets}

RECURSIVE BrokenSets(_, _)
BrokenSets(sys, n) ==
    IF n = 0 THEN {{}}
    ELSE BrokenSets(sys, n - 1)
         \cup {b \cup {p} : b \in BrokenSets(sys, n - 1), p \in EntityPaths(sys)}

\* a process starts: Scst::init()
ScstInit ==
    /\ ncalls < MaxInits
    /\ \E perm \in Orders(InitiatorNames) :
        LET r == Scst_init(roots, sysfs, perm, broken) IN
        /\ ret' = [NoRet EXCEPT !.op = "init", !.res = r.res]
        /\ cache' = r.self
        /\ reads' = r.reads
    /\ ncalls' = ncalls + 1
    /\ UNCHANGED <<sysfs, wlog, pre, pc, todo, cfg, napply, optVars,
                   text, line, doc, parsed, roots, broken>>

InitBoot ==
    /\ sysfs \in InitTrees
    /\ roots \in SUBSET Candidates
    /\ broken \in BrokenSets(sysfs, MaxBroken)
    /\ cache = Scst_default(<<>>)
    /\ reads = <<>>
    /\ ret = NoRet
    /\ wlog = <<>>
    /\ pre = [cache |-> cache, sysfs |-> sysfs]
    /\ pc = "idle"
    /\ todo = <<>>
    /\ cfg = NoCfg
    /\ ncalls = 0
    /\ napply = 0
    /\ InitOptions
    /\ InitRead
    /\ InitDoc

NextBoot == ScstInit

SpecBoot == InitBoot /\ [][NextBoot]_vars

----
(* C14: Scst::init and the two candidate roots *)

FirstRoot == IF SCST_ROOT_OLD \in roots THEN SCST_ROOT_OLD ELSE SCST_ROOT_NEW

\* C14: Scst::init returns NoModule exactly when neither candidate root
\* exists, and then has only probed for the two paths; otherwise it loads
\* from the old root when that exists and from the new root when only that
\* exists, and never probes the new root when the old one exists.
C14_InitRoot ==
    ret.op = "init" =>
        /\ ret.res = "NoModule" <=> roots \cap Candidates = {}
        /\ ret.res = "NoModule" => \A i \in DOMAIN reads : reads[i].op = "exists"
        /\ reads[1] = Probe(SCST_ROOT_OLD)
        /\ ret.res # "NoModule" =>
            /\ reads[Len(reads)] = Read(FirstRoot)
            /\ \A i \in DOMAIN reads : reads[i].op = "load" => i = Len(reads)
            /\ SCST_ROOT_OLD \in roots => Len(reads) = 2
            /\ SCST_ROOT_OLD \notin roots =>
                    reads = <<Probe(SCST_ROOT_OLD), Probe(SCST_ROOT_NEW),
                              Read(SCST_ROOT_NEW)>>
        /\ ret.res = "Ok" =>
            /\ cache.root = FirstRoot
            /\ DOMAIN cache.handlers = DOMAIN sysfs.devices
            /\ DOMAIN cache.iscsi_driver.targets = DOMAIN sysfs.targets

\* both roots exist and the tree was loaded from the old one
C14_Witness ==
    /\ ret.op = "init"
    /\ ret.res = "Ok"
    /\ roots = Candidates
    /\ cache.root = SCST_ROOT_OLD
    /\ DOMAIN cache.iscsi_driver.targets # {}

----
(* C15: a child whose load fails *)

\* the cached node whose directory is the relative path p, when the cache
\* holds one: handlers, devices, targets, LUNs and groups
Under(c, p) ==
    IF Len(p) = 2 /\ p[1] = SCST_HANDLER THEN c.handlers
    ELSE IF Len(p) = 3 /\ p[1] = SCST_HANDLER THEN c.handlers[p[2]].devices
    ELSE IF Len(p) = 3 THEN c.iscsi_driver.targets
    ELSE IF Len(p) = 5 /\ p[4] = TARGET_LUN THEN c.iscsi_driver.targets[p[3]].luns
    ELSE IF Len(p) = 5 THEN c.iscsi_driver.targets[p[3]].ini_groups
    ELSE c.iscsi_driver.targets[p[3]].ini_groups[p[5]].luns

\* the directory p is a child that a parent's load enumerates, and every
\* directory above it loads
IsChild(p) ==
    /\ Len(p) >= 2
    /\ p # <<SCST_DRIVER, "iscsi">>
    /\ \A n \in 0..(Len(p) - 1) : SubSeq(p, 1, n) \notin broken

\* C15: after a load that succeeded, a child directory whose own load
\* failed has no entry in its parent's collection, and every child
\* directory that loaded has one.
C15_FailedChildSkipped ==
    (ret.op = "init" /\ ret.res = "Ok") =>
        \A p \in EntityPaths(sysfs) :
            IsChild(p) =>
                (file_name(p) \in DOMAIN Under(cache, p) <=> p \notin broken)

----
(* C16: an add whose command write fails *)

AddFailError(op) ==
    CASE op = "add_device" -> "DeviceAddFail"
      [] op = "add_target" -> "TargetAddFail"
      [] op = "target_add_lun" -> "TargetAddLunFail"
      [] op = "create_ini_group" -> "GroupAddFail"
      [] op = "group_add_lun" -> "GroupAddLunFail"
      [] op = "add_initiator" -> "GroupAddIniFail"

WriteFailed(log) == \E i \in DOMAIN log : ~log[i].ok

\* C16: an add operation that got as far as writing its command, and whose
\* write failed, returns the add-failed error of its kind carrying the key
\* it was asked to add, and leaves the cache as it was.
C16_AddFailWrapped ==
    [][(IsCall /\ ret'.op \in AddOps /\ WriteFailed(wlog')) =>
            /\ ret'.res = AddFailError(ret'.op)
            /\ ret'.key = ret'.arg
            /\ cache' = cache]_vars

----
(* C17: an add whose write succeeds and whose reload fails *)

\* the entities the kernel tree holds in the directory that the operation
\* op, called on the entity rooted at at, adds to or deletes from
SysKeysAt(sys, op, at) ==
    CASE op \in {"add_device", "del_device"} -> sys.devices[at[3]]
      [] op \in {"add_target", "del_target"} -> DOMAIN sys.targets
      [] op \in {"create_ini_group", "del_ini_group"} ->
            DOMAIN sys.targets[TargetOf(at)].groups
      [] op \in {"add_initiator", "del_initiator"} ->
            sys.targets[TargetOf(at)].groups[GroupOf(at)].inis
      [] OTHER -> DOMAIN SysLuns(sys, join(at, TARGET_LUN))

\* the add operations that load the new child after the write
ReloadAdds == AddOps \ {"add_initiator"}

\* the call r made again on the cache c and the tree sys; w is the write
\* the first call made, order and perm the iteration orders of this call
AddAgain(c, sys, r, w, order, perm) ==
    LET self == NodeAt(c, r.at) IN
    CASE r.op = "add_device" ->
            Handler_add_device(self, sys, r.arg, "/dev/sdb", r.o, order, "ok")
      [] r.op = "add_target" ->
            Driver_add_target(self, sys, r.arg, r.o, order, "ok", perm)
      [] r.op = "target_add_lun" ->
            Target_add_lun(self, sys, w.cmd[3], r.arg, r.o, order, "ok")
      [] r.op = "create_ini_group" ->
            Target_create_ini_group(self, sys, r.arg, "ok", perm)
      [] r.op = "group_add_lun" ->
            IniGroup_add_lun(self, sys, w.cmd[3], r.arg, r.o, order, "ok")

ReloadFailed(r, log) ==
    /\ r.op \in ReloadAdds
    /\ log # <<>>
    /\ ~WriteFailed(log)
    /\ r.res # "Ok"

\* C17: when an add has written its command and the load of the new child
\* then fails, the call returns the error of the load, the cache is exactly
\* what it was, and the kernel tree holds the new entity; the same add made
\* again is not refused by the precondition and writes to the same mgmt
\* file once more.
C17_WriteWithoutCache ==
    [][(IsCall /\ ReloadFailed(ret', wlog')) =>
            /\ ret'.res = "Io"
            /\ cache' = cache
            /\ ret'.arg \notin KeysAt(cache', ret'.op, ret'.at)
            /\ ret'.arg \in SysKeysAt(sysfs', ret'.op, ret'.at)
            /\ ret'.arg \notin SysKeysAt(sysfs, ret'.op, ret'.at)
            /\ \A order \in Orders(DOMAIN ret'.o), perm \in Orders(InitiatorNames) :
                LET again == AddAgain(cache', sysfs', ret', wlog'[1], order, perm) IN
                /\ again.res # ExistsError(ret'.op)
                /\ Len(again.log) = 1
                /\ again.log[1].file = wlog'[1].file]_vars

\* add_device wrote its command, the load of the device failed, and the
\* kernel holds a device the cache does not
C17_Witness ==
    /\ ret.op = "add_device"
    /\ ReloadFailed(ret, wlog)
    /\ ret.res = "Io"
    /\ ret.arg \in SysKeysAt(sysfs, ret.op, ret.at)
    /\ ret.arg \notin KeysAt(cache, ret.op, ret.at)

-----------------------------------------------------------------------------
(* Sequences of calls.  One owner of the tree makes up to MaxSeq mutator   *)
(* calls one after the other, each with default Options; the kernel tree   *)
(* changes only through the commands it writes.                            *)

CanSeq == pc = "idle" /\ ncalls < MaxSeq

SeqDevice ==
    /\ CanSeq
    /\ \E h \in HandlerNames, name \in DeviceNames, io \in IOs, add \in BOOLEAN :
        LET self == cache.handlers[h]
            r == IF add
                 THEN Handler_add_device(self, sysfs, name, "/dev/sdb",
                                         Options_new, <<>>, io)
                 ELSE Handler_del_device(self, sysfs, name, io)
        IN  Return(IF add THEN "add_device" ELSE "del_device", self, name, r,
                   WithHandler(h, r))

SeqTarget ==
    /\ CanSeq
    /\ \E name \in TargetNames, io \in IOs, add \in BOOLEAN,
          perm \in Orders(InitiatorNames) :
        LET self == cache.iscsi_driver
            r == IF add
                 THEN Driver_add_target(self, sysfs, name, Options_new, <<>>, io, perm)
                 ELSE Driver_del_target(self, sysfs, name, io)
        IN  Return(IF add THEN "add_target" ELSE "del_target", self, name, r,
                   WithDriver(r))

SeqTargetLun ==
    /\ CanSeq
    /\ \E t \in DOMAIN Targets, d \in DeviceNames, i \in LunDirs, io \in IOs,
          add \in BOOLEAN :
        LET r == IF add
                 THEN Target_add_lun(Targets[t], sysfs, d, i, Options_new, <<>>, io)
                 ELSE Target_del_lun(Targets[t], sysfs, i, io)
        IN  Return(IF add THEN "target_add_lun" ELSE "target_del_lun", Targets[t],
                   i, r, WithTarget(t, r))

SeqGroup ==
    /\ CanSeq
    /\ \E t \in DOMAIN Targets, name \in GroupNames, io \in IOs, add \in BOOLEAN,
          perm \in Orders(InitiatorNames) :
        LET r == IF add
                 THEN Target_create_ini_group(Targets[t], sysfs, name, io, perm)
                 ELSE Target_del_ini_group(Targets[t], sysfs, name, io)
        IN  Return(IF add THEN "create_ini_group" ELSE "del_ini_group", Targets[t],
                   name, r, WithTarget(t, r))

SeqGroupLun ==
    /\ CanSeq
    /\ \E t \in DOMAIN Targets : \E g \in DOMAIN Targets[t].ini_groups :
       \E d \in DeviceNames, i \in LunDirs, io \in IOs, add \in BOOLEAN :
        LET self == Targets[t].ini_groups[g]
            r == IF add
                 THEN IniGroup_add_lun(self, sysfs, d, i, Options_new, <<>>, io)
                 ELSE IniGroup_del_lun(self, sysfs, i, io)
        IN  Return(IF add THEN "group_add_lun" ELSE "group_del_lun", self, i, r,
                   WithGroup(t, g, r))

NextSeq ==
    \/ SeqDevice
    \/ SeqTarget
    \/ SeqTargetLun
    \/ SeqGroup
    \/ SeqGroupLun

SpecSeq == Init /\ [][NextSeq]_vars

----
(* C18: cached key sets and the kernel's entities *)

\* every cached collection of devices, targets, LUNs and groups has as its
\* keys the entities the kernel tree holds for that parent
KeysMatch(c, sys) ==
    /\ DOMAIN c.handlers = DOMAIN sys.devices
    /\ \A h \in DOMAIN c.handlers : DOMAIN c.handlers[h].devices = sys.devices[h]
    /\ DOMAIN c.iscsi_driver.targets = DOMAIN sys.targets
    /\ \A t \in DOMAIN c.iscsi_driver.targets \cap DOMAIN sys.targets :
        LET ct == c.iscsi_driver.targets[t]
            st == sys.targets[t]
        IN  /\ DOMAIN ct.luns = DOMAIN st.luns
            /\ DOMAIN ct.ini_groups = DOMAIN st.groups
            /\ \A g \in DOMAIN ct.ini_groups \cap DOMAIN st.groups :
                DOMAIN ct.ini_groups[g].luns = DOMAIN st.groups[g].luns

KeyOps == (AddOps \cup DelOps) \ {"add_initiator", "del_initiator"}

-----------------------------------------------------------------------------
(* The initiators of a group.  The kernel moves an initiator out of the    *)
(* group the command is written to and into the named group of the same    *)
(* target, and refuses when the initiator is not in the first or the named *)
(* group does not exist; clear empties the group.                          *)

K_move_initiator(sys, inidir, ini, group) ==
    LET t == TargetOf(inidir)
        g == GroupOf(inidir) IN
    IF \/ ini \notin sys.targets[t].groups[g].inis
       \/ group \notin DOMAIN sys.targets[t].groups
       \/ group = g
    THEN [ok |-> FALSE, sys |-> sys]
    ELSE [ok |-> TRUE,
          sys |-> [sys EXCEPT !.targets[t].groups[g].inis = @ \ {ini},
                              !.targets[t].groups[group].inis = @ \cup {ini}]]

K_clear_initiators(sys, inidir) ==
    [ok |-> TRUE,
     sys |-> [sys EXCEPT !.targets[TargetOf(inidir)].groups[GroupOf(inidir)].inis = {}]]

IniGroup_move_initiator(self, sys, ini, group, io) ==
    LET root == join(self.root, TARGET_INITIATOR)
        k == K_move_initiator(sys, root, ini, group)
        w == mgmt(root, <<"move", " ", ini, " ", group>>, io, k)
    IN  IF ~Contains(self.initiators, ini)
        THEN R(self, sys, "GroupNoIni", ini, {}, <<>>)
        ELSE IF ~w.ok THEN R(self, sys, "GroupMoveIniFail", ini, {}, <<w>>)
        ELSE R(self, k.sys, "Ok", "", {}, <<w>>)

IniGroup_clear_initiators(self, sys, io) ==
    LET root == join(self.root, TARGET_INITIATOR)
        k == K_clear_initiators(sys, root)
        w == mgmt(root, <<"clear">>, io, k)
    IN  IF ~w.ok THEN R(self, sys, "GroupClearIniFail", "", {}, <<w>>)
        ELSE R(self, k.sys, "Ok", "", {}, <<w>>)

IniAdd ==
    /\ CanSeq
    /\ \E t \in DOMAIN Targets : \E g \in DOMAIN Targets[t].ini_groups :
       \E ini \in InitiatorNames, io \in IOs :
        LET self == Targets[t].ini_groups[g]
            r == IniGroup_add_initiator(self, sysfs, ini, io)
        IN  Return("add_initiator", self, ini, r, WithGroup(t, g, r))

IniDel ==
    /\ CanSeq
    /\ \E t \in DOMAIN Targets : \E g \in DOMAIN Targets[t].ini_groups :
       \E ini \in InitiatorNames, io \in IOs :
        LET self == Targets[t].ini_groups[g]
            r == IniGroup_del_initiator(self, sysfs, ini, io)
        IN  Return("del_initiator", self, ini, r, WithGroup(t, g, r))

IniMove ==
    /\ CanSeq
    /\ \E t \in DOMAIN Targets : \E g \in DOMAIN Targets[t].ini_groups :
       \E ini \in InitiatorNames, dest \in GroupNames, io \in IOs :
        LET self == Targets[t].ini_groups[g]
            r == IniGroup_move_initiator(self, sysfs, ini, dest, io)
        IN  Return("move_initiator", self, ini, r, WithGroup(t, g, r))

IniClear ==
    /\ CanSeq
    /\ \E t \in DOMAIN Targets : \E g \in DOMAIN Targets[t].ini_groups :
       \E io \in IOs :
        LET self == Targets[t].ini_groups[g]
            r == IniGroup_clear_initiators(self, sysfs, io)
        IN  Return("clear_initiators", self, "", r, WithGroup(t, g, r))

NextIni ==
    \/ IniAdd
    \/ IniDel
    \/ IniMove
    \/ IniClear

SpecIni == Init /\ [][NextIni]_vars

----
(* C19: the cached initiator list after an initiator mutator *)

IniOps == {"add_initiator", "del_initiator", "move_initiator", "clear_initiators"}

\* the initiator lists a load of the group rooted at at can produce, one
\* for each order in which read_dir may list the files
FreshInitiators(sys, at) ==
    {IniGroup_load(sys.targets[TargetOf(at)].groups[GroupOf(at)], at, perm).initiators :
        perm \in Orders(InitiatorNames)}

\* C19: after an initiator mutator that succeeded, the initiator list the
\* group caches is one that a load of the group would produce: it lists
\* exactly the initiators the kernel holds for the group, each once.
C19_InitiatorsFresh ==
    [][(IsCall /\ ret'.op \in IniOps /\ ret'.res = "Ok"
            /\ NodeAt(cache, ret'.at).initiators \in FreshInitiators(sysfs, ret'.at))
        => NodeAt(cache', ret'.at).initiators \in FreshInitiators(sysfs', ret'.at)]_vars

-----------------------------------------------------------------------------
(* Enabling and disabling the driver and its targets. *)

DriverEnable ==
    /\ CanSeq
    /\ \E io \in IOs :
        LET self == cache.iscsi_driver
            r == Driver_enable(self, sysfs, io)
        IN  Return("driver_enable", self, "", r, WithDriver(r))

DriverDisable ==
    /\ CanSeq
    /\ \E io \in IOs :
        LET self == cache.iscsi_driver
            r == Driver_disable(self, sysfs, io)
        IN  Return("driver_disable", self, "", r, WithDriver(r))

TargetEnable ==
    /\ CanSeq
    /\ \E t \in DOMAIN Targets, io \in IOs :
        LET r == Target_enable(Targets[t], sysfs, io)
        IN  Return("target_enable", Targets[t], "", r, WithTarget(t, r))

TargetDisable ==
    /\ CanSeq
    /\ \E t \in DOMAIN Targets, io \in IOs :
        LET r == Target_disable(Targets[t], sysfs, io)
        IN  Return("target_disable", Targets[t], "", r, WithTarget(t, r))

NextEnable ==
    \/ DriverEnable
    \/ DriverDisable
    \/ TargetEnable
    \/ TargetDisable

SpecEnable == Init /\ [][NextEnable]_vars

----
(* C20: enable and disable *)

EnableOps == {"driver_enable", "target_enable"}
DisableOps == {"driver_disable", "target_disable"}

\* the flag the operation asks for, as a number and as the text written
Flag(op) == IF op \in EnableOps THEN 1 ELSE 0

\* the cache c with the enabled flag of the entity rooted at at set to v
SetEnabled(c, at, v) ==
    IF Len(at) = 3 THEN [c EXCEPT !.iscsi_driver.enabled = v]
    ELSE [c EXCEPT !.iscsi_driver.targets[TargetOf(at)].enabled = v]

\* enabled(): the flag is 1
enabled(self) == self.enabled = 1

\* C20: enable and disable of the driver or of a target make one write, of
\* "1" or of "0", to the file enabled of the entity; when the write
\* succeeds the call succeeds and enabled() is true after enable and false
\* after disable; when it fails the call fails and the flag is what it was;
\* nothing else in the cache changes either way.
C20_EnableDisable ==
    [][(IsCall /\ ret'.op \in EnableOps \cup DisableOps) =>
        LET at == ret'.at
            v == Flag(ret'.op)
        IN  /\ Len(wlog') = 1
            /\ wlog'[1].file = join(at, "enabled")
            /\ wlog'[1].cmd = <<ToString(v)>>
            /\ wlog'[1].ok =>
                /\ ret'.res = "Ok"
                /\ enabled(NodeAt(cache', at)) <=> ret'.op \in EnableOps
                /\ cache' = SetEnabled(cache, at, v)
            /\ ~wlog'[1].ok =>
                /\ ret'.res # "Ok"
                /\ cache' = cache]_vars

\* a target that was enabled has been disabled, and a later enable of it
\* failed at the write and left it disabled
C20_Witness ==
    /\ ncalls = 2
    /\ ret.op = "target_enable"
    /\ ret.res # "Ok"
    /\ ~wlog[1].ok
    /\ pre.cache.iscsi_driver.targets[TargetOf(ret.at)].enabled = 1
    /\ ~enabled(NodeAt(cache, ret.at))

-----------------------------------------------------------------------------
(* Attributes of the driver and of its targets.  The kernel takes an       *)
(* attribute command without changing the directories of the tree.         *)

TargetAttrs == {"IncomingUser", "OutgoingUser", "allowed_portal"}
DriverAttrs == {"IncomingUser", "OutgoingUser"}
AttrNames == TargetAttrs \cup {"read_only"}

K_attribute(sys) == [ok |-> TRUE, sys |-> sys]

\* the shape that add_target_attribute and del_target_attribute share
target_attribute(self, sys, verb, name, attr, value, io, perm) ==
    LET w == mgmt(self.root, <<verb, " ", name, " ", attr, " ", value>>, io,
                  K_attribute(sys))
        target == Target_load(sys.targets[name], join(self.root, name), perm)
    IN  IF name \notin DOMAIN self.targets
        THEN R(self, sys, "NoTarget", name, {}, <<>>)
        ELSE IF attr \notin TargetAttrs
        THEN R(self, sys, "TargetBadAttrs", "", {}, <<>>)
        ELSE IF ~w.ok THEN R(self, sys, "Io", "", {}, <<w>>)
        ELSE IF io = "load" \/ name \notin DOMAIN sys.targets
        THEN R(self, sys, "Io", "", {}, <<w>>)
        ELSE R([self EXCEPT !.targets = Insert(@, target.name, target)],
               sys, "Ok", "", {}, <<w>>)

Driver_add_target_attribute(self, sys, name, attr, value, io, perm) ==
    target_attribute(self, sys, "add_target_attribute", name, attr, value, io, perm)

Driver_del_target_attribute(self, sys, name, attr, value, io, perm) ==
    target_attribute(self, sys, "del_target_attribute", name, attr, value, io, perm)

\* add_attribute that tests the name against the target-level list
Driver_add_attribute_target_list(self, sys, attr, value, io) ==
    LET w == mgmt(self.root, <<"add_attribute", " ", attr, " ", value>>, io,
                  K_attribute(sys))
    IN  IF attr \notin TargetAttrs
        THEN R(self, sys, "TargetBadAttrs", "", {}, <<>>)
        ELSE IF ~w.ok THEN R(self, sys, "Io", "", {}, <<w>>)
        ELSE R(self, sys, "Ok", "", {}, <<w>>)

Driver_add_attribute(self, sys, attr, value, io) ==
    LET w == mgmt(self.root, <<"add_attribute", " ", attr, " ", value>>, io,
                  K_attribute(sys))
    IN  IF attr \notin DriverAttrs
        THEN R(self, sys, "TargetBadAttrs", "", {}, <<>>)
        ELSE IF ~w.ok THEN R(self, sys, "Io", "", {}, <<w>>)
        ELSE R(self, sys, "Ok", "", {}, <<w>>)

Driver_del_attribute(self, sys, attr, value, io) ==
    LET w == mgmt(self.root, <<"del_attribute", " ", attr, " ", value>>, io,
                  K_attribute(sys))
    IN  IF attr \notin DriverAttrs
        THEN R(self, sys, "TargetBadAttrs", "", {}, <<>>)
        ELSE IF ~w.ok THEN R(self, sys, "Io", "", {}, <<w>>)
        ELSE R(self, sys, "Ok", "", {}, <<w>>)

\* the attribute and its value, recorded with the call
AttrArg(attr, value) == [k \in {attr} |-> value]

AddTargetAttribute ==
    /\ CanSeq
    /\ \E name \in TargetNames, attr \in AttrNames, io \in IOs,
          perm \in Orders(InitiatorNames) :
        LET self == cache.iscsi_driver
            r == Driver_add_target_attribute(self, sysfs, name, attr, "v", io, perm)
        IN  ReturnWith("add_target_attribute", self, name, AttrArg(attr, "v"), r,
                       WithDriver(r))

DelTargetAttribute ==
    /\ CanSeq
    /\ \E name \in TargetNames, attr \in AttrNames, io \in IOs,
          perm \in Orders(InitiatorNames) :
        LET self == cache.iscsi_driver
            r == Driver_del_target_attribute(self, sysfs, name, attr, "v", io, perm)
        IN  ReturnWith("del_target_attribute", self, name, AttrArg(attr, "v"), r,
                       WithDriver(r))

AddAttribute ==
    /\ CanSeq
    /\ \E attr \in AttrNames, io \in IOs :
        LET self == cache.iscsi_driver
            r == Driver_add_attribute(self, sysfs, attr, "v", io)
        IN  ReturnWith("add_attribute", self, "", AttrArg(attr, "v"), r, WithDriver(r))

DelAttribute ==
    /\ CanSeq
    /\ \E attr \in AttrNames, io \in IOs :
        LET self == cache.iscsi_driver
            r == Driver_del_attribute(self, sysfs, attr, "v", io)
        IN  ReturnWith("del_attribute", self, "", AttrArg(attr, "v"), r, WithDriver(r))

NextAttr ==
    \/ AddTargetAttribute
    \/ DelTargetAttribute
    \/ AddAttribute
    \/ DelAttribute

SpecAttr == Init /\ [][NextAttr]_vars

----
(* C21: attribute names and target names are validated before any write *)

TargetAttrOps == {"add_target_attribute", "del_target_attribute"}
DriverAttrOps == {"add_attribute", "del_attribute"}

\* the attribute names the claim allows for the operation
ClaimedAttrs(op) ==
    IF op \in TargetAttrOps THEN {"IncomingUser", "OutgoingUser", "allowed_portal"}
    ELSE {"IncomingUser", "OutgoingUser"}

\* the call r on the cache c passes the validation the claim describes
AttrValid(c, r) ==
    /\ DOMAIN r.o \subseteq ClaimedAttrs(r.op)
    /\ r.op \in TargetAttrOps => r.arg \in DOMAIN c.iscsi_driver.targets

\* C21: an attribute operation of the driver with a name outside the list
\* of its kind, or on a target the driver does not hold, fails with a
\* validation error, writes nothing and leaves cache and tree as they were;
\* with an allowed name on a known target it goes on to write its command.
C21_AttrValidated ==
    [][(IsCall /\ ret'.op \in TargetAttrOps \cup DriverAttrOps) =>
        /\ ~AttrValid(cache, ret') =>
            /\ ret'.res \in {"NoTarget", "TargetBadAttrs"}
            /\ wlog' = <<>>
            /\ cache' = cache
            /\ sysfs' = sysfs
        /\ AttrValid(cache, ret') =>
            /\ Len(wlog') = 1
            /\ wlog'[1].file = join(ret'.at, "mgmt")]_vars

\* add_attribute was refused allowed_portal, which only a target takes
C21_Witness ==
    /\ ret.op = "add_attribute"
    /\ DOMAIN ret.o = {"allowed_portal"}
    /\ ret.res = "TargetBadAttrs"
    /\ wlog = <<>>

-----------------------------------------------------------------------------
(* from_cfg: convergence.  A step of the walk that names a device, target, *)
(* LUN, group or initiator describes one entity of the Config.              *)

EntitySteps(c) ==
    LET w == Walk(c) IN
    {w[i] : i \in {j \in 1..Len(w) :
                    w[j].k \in {"device", "target", "tlun", "group", "glun", "ini"}}}

\* the entity of the step s is in the cache c
StepLive(c, s) ==
    LET ts == c.iscsi_driver.targets
        lc == IF s.k = "tlun" THEN LunCfg(s.n, s.b) ELSE LunCfg(s.n, s.c)
    IN
    CASE s.k = "device" ->
            s.a \in DOMAIN c.handlers /\ s.b \in DOMAIN c.handlers[s.a].devices
      [] s.k = "target" -> s.a \in DOMAIN ts
      [] s.k = "tlun" -> s.a \in DOMAIN ts /\ LunLive(ts[s.a].luns, lc)
      [] s.k = "group" -> s.a \in DOMAIN ts /\ s.b \in DOMAIN ts[s.a].ini_groups
      [] s.k = "glun" ->
            /\ s.a \in DOMAIN ts
            /\ s.b \in DOMAIN ts[s.a].ini_groups
            /\ LunLive(ts[s.a].ini_groups[s.b].luns, lc)
      [] s.k = "ini" ->
            /\ s.a \in DOMAIN ts
            /\ s.b \in DOMAIN ts[s.a].ini_groups
            /\ Contains(ts[s.a].ini_groups[s.b].initiators, s.c)

\* the write e is the add command of the entity of the step s
IsAddOf(e, s) ==
    CASE s.k = "device" ->
            IsAddDevice(e) /\ HandlerOf(e.file) = s.a /\ e.cmd[3] = s.b
      [] s.k = "target" -> IsAddTarget(e) /\ e.cmd[3] = s.a
      [] s.k = "tlun" ->
            /\ IsAddLun(e) /\ ~UnderGroup(e) /\ TargetOf(e.file) = s.a
            /\ e.cmd[3] = s.b /\ e.cmd[5] = ToString(s.n)
      [] s.k = "group" ->
            IsCreateGroup(e) /\ TargetOf(e.file) = s.a /\ e.cmd[3] = s.b
      [] s.k = "glun" ->
            /\ IsAddLun(e) /\ UnderGroup(e)
            /\ TargetOf(e.file) = s.a /\ GroupOf(e.file) = s.b
            /\ e.cmd[3] = s.c /\ e.cmd[5] = ToString(s.n)
      [] s.k = "ini" ->
            /\ IsAddInitiator(e)
            /\ TargetOf(e.file) = s.a /\ GroupOf(e.file) = s.b
            /\ e.cmd[3] = s.c

AddsOf(log, s) == {i \in 1..Len(log) : IsAddOf(log[i], s)}

(* Claim C22: when from_cfg returns success, every device, target, LUN,    *)
(* group and initiator the Config describes is in the cache, under the     *)
(* handler, driver, target or group the Config puts it in, and each of     *)
(* them that was not cached before the call received exactly one add       *)
(* command during it.                                                       *)
C22_Converges ==
    (ret.op = "from_cfg" /\ pc = "idle" /\ ret.res = "Ok")
        => \A s \in EntitySteps(cfg) :
            /\ StepLive(cache, s)
            /\ ~StepLive(pre.cache, s) => Cardinality(AddsOf(wlog, s)) = 1

\* the second Config was applied with success to the tree that held the
\* first: its device, target, group, group LUN and two initiators were added
C22_Witness ==
    /\ ret.op = "from_cfg"
    /\ pc = "idle"
    /\ ret.res = "Ok"
    /\ pre.sysfs = SmallTree
    /\ cfg = CfgOther(1, 1)
    /\ \A s \in EntitySteps(cfg) :
            ~StepLive(pre.cache, s) /\ Cardinality(AddsOf(wlog, s)) = 1

-----------------------------------------------------------------------------
\* the positions in the Config c of the handlers the cache s does not hold
UnknownHandlers(c, s) ==
    {i \in 1..Len(c.handlers) : c.handlers[i].name \notin DOMAIN s.handlers}

\* the first of them
FirstUnknown(c, s) ==
    CHOOSE i \in UnknownHandlers(c, s) : \A j \in UnknownHandlers(c, s) : i <= j

\* every write of the log adds a device to a handler that the Config c
\* lists before position u
OnlyEarlierDevices(log, c, u) ==
    \A i \in 1..Len(log) :
        /\ IsAddDevice(log[i])
        /\ \E j \in 1..(u - 1) : c.handlers[j].name = HandlerOf(log[i].file)

\* from_cfg has returned the no-such-handler error for the handler at u
NoHandlerAt(c, u) ==
    /\ ret.res = "NoHandler"
    /\ ret.key = c.handlers[u].name
    /\ Head(todo) = Step("handler", c.handlers[u].name, "", "", 0)

\* the statement as the claim words it: whenever the Config names a
\* handler the cache does not hold, the error from_cfg returns is the
\* no-such-handler error
C23_AlwaysNoHandler ==
    (ret.op = "from_cfg" /\ UnknownHandlers(cfg, pre.cache) # {})
        => LET u == FirstUnknown(cfg, pre.cache) IN
           /\ OnlyEarlierDevices(wlog, cfg, u)
           /\ pc = "idle" => NoHandlerAt(cfg, u)

(* Claim C23: when the Config names a handler that the cache does not      *)
(* hold, from_cfg fails; it issues no command but the add_device commands  *)
(* of the handlers it processes before that one (none for that handler,    *)
(* for a later handler, or for any driver, target, LUN, group or           *)
(* initiator), and the error it returns is the no-such-handler error for   *)
(* that name unless an add_device of an earlier handler has failed, in     *)
(* which case it is the error of that add_device.                           *)
C23_UnknownHandlerFails ==
    (ret.op = "from_cfg" /\ UnknownHandlers(cfg, pre.cache) # {})
        => LET u == FirstUnknown(cfg, pre.cache) IN
           /\ OnlyEarlierDevices(wlog, cfg, u)
           /\ pc = "idle"
                => \/ NoHandlerAt(cfg, u)
                   \/ /\ ret.res \in {"DeviceAddFail", "Io"}
                      /\ Head(todo).k = "device"
                      /\ \E j \in 1..(u - 1) : cfg.handlers[j].name = Head(todo).a

\* from_cfg added the device of the first handler and then failed on the
\* unknown one
C23_Witness ==
    /\ ret.op = "from_cfg"
    /\ pc = "idle"
    /\ cfg = CfgUnknown
    /\ ret.res = "NoHandler"
    /\ ret.key = "vdisk_cdrom"
    /\ Len(wlog) = 1
    /\ IsAddDevice(wlog[1])
    /\ wlog[1].res = "Ok"

-----------------------------------------------------------------------------
\* the write e goes to a file below the directory of the iSCSI driver, or
\* below the handlers
BelowIscsi(e) == IsPrefix(DriverRoot, e.file)
BelowHandlers(e) == IsPrefix(join(ScstRoot, SCST_HANDLER), e.file)

\* the driver entry dc is applied: its flag, when set, is on the iSCSI
\* driver in cache and kernel, and its targets are targets of that driver
EntryApplied(dc, c, sys) ==
    /\ dc.enabled = 1 => (c.iscsi_driver.enabled = 1 /\ sys.enabled = 1)
    /\ \A j \in 1..Len(dc.targets) :
        /\ dc.targets[j].name \in DOMAIN c.iscsi_driver.targets
        /\ dc.targets[j].name \in DOMAIN sys.targets

(* Claim C24: from_cfg applies every driver entry of the Config to the one *)
(* iSCSI driver, whatever name the entry carries: every command of a run   *)
(* that is not for a handler goes to a file below targets/iscsi, and when  *)
(* from_cfg returns success the enabled flag of each entry that sets it is *)
(* on the iSCSI driver and the targets of each entry are its targets.       *)
C24_SingleDriver ==
    ret.op = "from_cfg"
        => /\ \A i \in 1..Len(wlog) : BelowIscsi(wlog[i]) \/ BelowHandlers(wlog[i])
           /\ (pc = "idle" /\ ret.res = "Ok")
                => \A i \in 1..Len(cfg.drivers) :
                        EntryApplied(cfg.drivers[i], cache, sysfs)

\* the entry named qla2x00t enabled the iSCSI driver and created its target
\* there, on a tree where the driver was disabled and the target missing
C24_Witness ==
    /\ ret.op = "from_cfg"
    /\ pc = "idle"
    /\ ret.res = "Ok"
    /\ cfg = CfgTwoDrivers
    /\ pre.sysfs.enabled = 0
    /\ "iqn.t2" \notin DOMAIN pre.sysfs.targets
    /\ sysfs.enabled = 1
    /\ "iqn.t2" \in DOMAIN cache.iscsi_driver.targets
    /\ \E i \in 1..Len(wlog) :
            wlog[i].file = join(DriverRoot, "enabled") /\ wlog[i].cmd = <<"1">>

-----------------------------------------------------------------------------
(* The Config that from_cfg walks, for a parsed document.  Each getter of  *)
(* config.rs returns the values of its BTreeMap and leaves the keys        *)
(* behind; the walk reads the names from the name field of the values.     *)

\* BTreeMap::values().collect(): the values, one for each key
values(m) ==
    LET ks == CHOOSE s \in [1..Cardinality(DOMAIN m) -> DOMAIN m] :
                    \A i, j \in DOMAIN s : s[i] = s[j] => i = j
    IN  [i \in DOMAIN ks |-> m[ks[i]]]

Walked_luns(ls) == [i \in DOMAIN ls |-> LunCfg(ls[i].id, ls[i].device)]

Walked_groups(gs) ==
    LET v == values(gs) IN
    [i \in DOMAIN v |-> IniGroupCfg(v[i].name, Walked_luns(v[i].luns), v[i].initiators)]

Walked_targets(ts) ==
    LET v == values(ts) IN
    [i \in DOMAIN v |-> TargetCfg(v[i].name, v[i].enabled, Walked_luns(v[i].luns),
                                  Walked_groups(v[i].groups))]

Walked_devices(ds) ==
    LET v == values(ds) IN [i \in DOMAIN v |-> DeviceCfg(v[i].name, v[i].filename)]

\* what cfg.handlers(), hc.devices(), cfg.drivers(), dc.targets() and
\* tc.groups() hand to from_cfg for the parsed Config v
Walked(v) ==
    LET hs == values(v.handlers)
        ds == values(v.drivers)
    IN  Config([i \in DOMAIN hs |-> HanderCfg(hs[i].name, Walked_devices(hs[i].devices))],
               [i \in DOMAIN ds |-> DriverCfg(ds[i].name, ds[i].enabled,
                                              Walked_targets(ds[i].targets))])

\* the names from_cfg looks up or creates when it walks c: of each handler,
\* each device with its handler, each target, each group with its target
UsedNames(c) ==
    LET w == Walk(c) IN
    {<<w[i].k, w[i].a, w[i].b>> :
        i \in {j \in 1..Len(w) : w[j].k \in {"handler", "device", "target", "group"}}}

\* the same entries named by the keys of the maps of the parsed Config v
KeyNames(v) ==
    {<<"handler", h, "">> : h \in DOMAIN v.handlers}
    \cup UNION {{<<"device", h, d>> : d \in DOMAIN v.handlers[h].devices} :
                    h \in DOMAIN v.handlers}
    \cup UNION {{<<"target", t, "">> : t \in DOMAIN v.drivers[d].targets} :
                    d \in DOMAIN v.drivers}
    \cup UNION {UNION {{<<"group", t, g>> : g \in DOMAIN v.drivers[d].targets[t].groups} :
                        t \in DOMAIN v.drivers[d].targets} :
                    d \in DOMAIN v.drivers}

(* Claim C25: for a Config parsed from a document, the names from_cfg      *)
(* uses for the handlers, devices, targets and groups are the keys of the  *)
(* document's maps, also when an entry has no name field of its own.       *)
C25_NamesAreKeys ==
    (parsed.op = "from" /\ parsed.ok)
        => UsedNames(Walked(parsed.cfg)) = KeyNames(parsed.cfg)

-----------------------------------------------------------------------------
\* every entry of the child map m is filed under the name of the child, and
\* the name is the last component of the child's directory
Keyed(m) ==
    \A k \in DOMAIN m : k = m[k].name /\ m[k].name = file_name(m[k].root)

\* the same for every child map of the cache c
AllKeyed(c) ==
    /\ Keyed(c.handlers)
    /\ \A h \in DOMAIN c.handlers : Keyed(c.handlers[h].devices)
    /\ Keyed(c.iscsi_driver.targets)
    /\ \A t \in DOMAIN c.iscsi_driver.targets :
        LET ct == c.iscsi_driver.targets[t] IN
        /\ Keyed(ct.luns)
        /\ Keyed(ct.ini_groups)
        /\ \A g \in DOMAIN ct.ini_groups : Keyed(ct.ini_groups[g].luns)

(* Claim C26: in every reachable state, after the load and any sequence of *)
(* mutators, each entry of Scst.handlers, Handler.devices, Driver.targets, *)
(* Target.luns, Target.ini_groups and IniGroup.luns is stored under the    *)
(* name of the child it holds, and that name is the last component of the  *)
(* child's directory path.                                                  *)
C26_KeyedByName == AllKeyed(cache)

\* a second call in a row has put a new LUN into a group
C26_Witness ==
    /\ ncalls = MaxSeq
    /\ ret.op = "group_add_lun"
    /\ ret.res = "Ok"
    /\ LET g == cache.iscsi_driver.targets[TargetOf(ret.at)].ini_groups[GroupOf(ret.at)]
       IN  ret.arg \in DOMAIN g.luns /\ g.luns[ret.arg].root = join(join(ret.at, TARGET_LUN), ret.arg)

-----------------------------------------------------------------------------
NoDup(s) == \A i, j \in 1..Len(s) : s[i] = s[j] => i = j

\* no group of the cache c lists an initiator twice
NoDupInitiators(c) ==
    \A t \in DOMAIN c.iscsi_driver.targets :
        \A g \in DOMAIN c.iscsi_driver.targets[t].ini_groups :
            NoDup(c.iscsi_driver.targets[t].ini_groups[g].initiators)

\* the initiator list of the group at the path at, in the cache c
InitiatorsAt(c, at) ==
    c.iscsi_driver.targets[TargetOf(at)].ini_groups[GroupOf(at)].initiators

\* s without its items equal to x, the others in their order
Without(s, x) == SelectSeq(s, LAMBDA y : y # x)

(* Claim C27: in every reachable state, after the load and any sequence of *)
(* add_initiator, del_initiator, move_initiator and clear_initiators, no   *)
(* group's cached initiator list holds an identifier more than once; a     *)
(* successful add_initiator appends the new identifier at the end and      *)
(* changes nothing else of the list, and a successful del_initiator        *)
(* removes that identifier, once, and keeps the others in their order.     *)
C27_InitiatorList ==
    /\ []NoDupInitiators(cache)
    /\ [][(IsCall /\ ret'.res = "Ok") =>
            /\ ret'.op = "add_initiator" =>
                /\ ~Contains(InitiatorsAt(cache, ret'.at), ret'.arg)
                /\ InitiatorsAt(cache', ret'.at)
                        = Append(InitiatorsAt(cache, ret'.at), ret'.arg)
            /\ ret'.op = "del_initiator" =>
                /\ Contains(InitiatorsAt(cache, ret'.at), ret'.arg)
                /\ Len(InitiatorsAt(cache', ret'.at))
                        = Len(InitiatorsAt(cache, ret'.at)) - 1
                /\ InitiatorsAt(cache', ret'.at)
                        = Without(InitiatorsAt(cache, ret'.at), ret'.arg)]_vars

\* an initiator was added behind another and the first one then deleted
C27_Witness ==
    /\ ncalls = MaxSeq
    /\ ret.op = "del_initiator"
    /\ ret.res = "Ok"
    /\ Len(InitiatorsAt(cache, ret.at)) = 1
    /\ InitiatorsAt(cache, ret.at)[1] # ret.arg

-----------------------------------------------------------------------------
(* The command issuer against the files themselves.  The mutators above    *)
(* take the outcome of a write from the environment (io); here the open    *)
(* and the write of echo are spelled out, with roots the control files     *)
(* that exist and broken the ones whose write the kernel turns down.       *)

\* the directories a command is issued under, and the commands
EchoRoots == {HandlerRoot("vdisk_blockio"), DriverRoot,
              join(join(DriverRoot, "iqn.t1"), TARGET_LUN)}
EchoCmds == {<<"add_target", " ", "iqn.t1">>, <<"clear">>}
MgmtFiles == {join(r, "mgmt") : r \in EchoRoots}

Sys(op, path) == [op |-> op, path |-> path]

\* fs::File::open(path): the file has to exist, and the descriptor is
\* opened for reading only
File_open(exist, path) ==
    [ok |-> path \in exist, path |-> path, access |-> {"read"}]

\* fd.write(bytes): a descriptor that is not open for writing takes no
\* bytes (EBADF); one that is hands them to the file
File_write(fd, rejecting) == "write" \in fd.access /\ fd.path \notin rejecting

\* echo(root, cmd) of lib.rs
echo_file(exist, rejecting, path, cmd) ==
    LET fd == File_open(exist, path) IN
    IF ~fd.ok
    THEN [res |-> "Io", calls |-> <<Sys("open", path)>>, got |-> <<>>]
    ELSE IF ~File_write(fd, rejecting)
    THEN [res |-> "Io", calls |-> <<Sys("open", path), Sys("write", path)>>,
          got |-> <<>>]
    ELSE [res |-> "Ok", calls |-> <<Sys("open", path), Sys("write", path)>>,
          got |-> <<[file |-> path, cmd |-> cmd, ok |-> TRUE, res |-> "Ok"]>>]

\* Layer::mgmt
Layer_mgmt(exist, rejecting, root, cmd) ==
    echo_file(exist, rejecting, join(root, "mgmt"), cmd)

\* a call of mgmt: reads takes the system calls it made, wlog what the file
\* received
Mgmt ==
    /\ CanSeq
    /\ \E root \in EchoRoots, cmd \in EchoCmds :
        LET r == Layer_mgmt(roots, broken, root, cmd) IN
        /\ ret' = [NoRet EXCEPT !.op = "mgmt", !.at = root, !.arg = cmd, !.res = r.res]
        /\ reads' = r.calls
        /\ wlog' = r.got
    /\ ncalls' = ncalls + 1
    /\ UNCHANGED <<sysfs, cache, pre, pc, todo, cfg, napply, optVars,
                   text, line, doc, parsed, roots, broken>>

InitEcho ==
    /\ InitTree /\ sysfs = EmptyTree
    /\ InitOptions /\ InitRead /\ InitDoc
    /\ roots \in SUBSET MgmtFiles
    /\ broken \in SUBSET MgmtFiles
    /\ reads = <<>>

NextEcho == Mgmt

SpecEcho == InitEcho /\ [][NextEcho]_vars

(* Claim C28: mgmt(root, command) touches the file named mgmt directly     *)
(* under root and no other, and never reads from it; when that file exists *)
(* and accepts writes it returns success and the file has received the     *)
(* bytes of the command, once; it returns an error only when the file is   *)
(* missing or rejects the write.                                            *)
C28_MgmtWrites ==
    ret.op = "mgmt"
        => LET f == join(ret.at, "mgmt") IN
           /\ \A i \in 1..Len(reads) :
                reads[i].path = f /\ reads[i].op \in {"open", "write"}
           /\ (f \in roots /\ f \notin broken)
                => /\ ret.res = "Ok"
                   /\ wlog = <<[file |-> f, cmd |-> ret.arg, ok |-> TRUE, res |-> "Ok"]>>
           /\ ret.res # "Ok" => (f \notin roots \/ f \in broken)

-----------------------------------------------------------------------------
(* Claim C29: different_set(keys) returns exactly the stored keys that are *)
(* not in the allow-list keys: the empty set when every stored key is      *)
(* allowed, and otherwise every stored key that is not allowed and no      *)
(* allowed one.  (Stated for the container and the allow-list of each      *)
(* checked pack, which calls different_set on them.)                        *)
C29_DifferentSet ==
    packed.op = "check_pack"
        => LET diff == different_set(opts, packed.keys) IN
           /\ DOMAIN opts \subseteq packed.keys => diff = {}
           /\ diff = DOMAIN opts \ packed.keys

-----------------------------------------------------------------------------
(* The frame of a mutator: what it leaves alone.                            *)

\* the maps m and n agree on every key but k
SameBut(m, n, k) ==
    \A x \in (DOMAIN m \cup DOMAIN n) \ {k} :
        x \in DOMAIN m /\ x \in DOMAIN n /\ m[x] = n[x]

\* the errors of a precondition: the key is there already, the key is not
\* there, or an option is refused
PreconditionErrors ==
    {ExistsError(op) : op \in AddOps} \cup {NoSuchError(op) : op \in DelOps}
        \cup {"BadOptions"}

LunOps == {"target_add_lun", "target_set_lun", "target_del_lun",
           "group_add_lun", "group_set_lun", "group_del_lun"}

\* the call r, made on the cache c, left the cache d and changed the cache
\* of nothing but the entity it was called on, and of that entity nothing
\* but the child it names
Framed(r, c, d) ==
    LET at == r.at
        t == TargetOf(at)
        g == GroupOf(at)
        cd == c.iscsi_driver
        dd == d.iscsi_driver
    IN
    /\ d.root = c.root
    /\ DOMAIN d.handlers = DOMAIN c.handlers
    /\ IF Len(at) = 3 /\ at[2] = SCST_HANDLER
       THEN /\ dd = cd
            /\ SameBut(c.handlers, d.handlers, at[3])
            /\ [d.handlers[at[3]] EXCEPT !.devices = c.handlers[at[3]].devices]
                    = c.handlers[at[3]]
            /\ SameBut(c.handlers[at[3]].devices, d.handlers[at[3]].devices, r.arg)
       ELSE /\ d.handlers = c.handlers
            /\ [dd EXCEPT !.targets = cd.targets] = cd
            /\ IF Len(at) = 3
               THEN SameBut(cd.targets, dd.targets, r.arg)
               ELSE /\ DOMAIN dd.targets = DOMAIN cd.targets
                    /\ SameBut(cd.targets, dd.targets, t)
                    /\ IF Len(at) = 4
                       THEN IF r.op \in LunOps
                            THEN /\ [dd.targets[t] EXCEPT !.luns = cd.targets[t].luns]
                                        = cd.targets[t]
                                 /\ SameBut(cd.targets[t].luns, dd.targets[t].luns, r.arg)
                            ELSE /\ [dd.targets[t] EXCEPT
                                        !.ini_groups = cd.targets[t].ini_groups]
                                        = cd.targets[t]
                                 /\ SameBut(cd.targets[t].ini_groups,
                                            dd.targets[t].ini_groups, r.arg)
                       ELSE /\ [dd.targets[t] EXCEPT
                                    !.ini_groups = cd.targets[t].ini_groups]
                                    = cd.targets[t]
                            /\ DOMAIN dd.targets[t].ini_groups
                                    = DOMAIN cd.targets[t].ini_groups
                            /\ SameBut(cd.targets[t].ini_groups,
                                       dd.targets[t].ini_groups, g)
                            /\ IF r.op \in LunOps
                               THEN /\ [dd.targets[t].ini_groups[g] EXCEPT
                                            !.luns = cd.targets[t].ini_groups[g].luns]
                                            = cd.targets[t].ini_groups[g]
                                    /\ SameBut(cd.targets[t].ini_groups[g].luns,
                                               dd.targets[t].ini_groups[g].luns, r.arg)
                               ELSE [dd.targets[t].ini_groups[g] EXCEPT
                                        !.initiators =
                                            cd.targets[t].ini_groups[g].initiators]
                                        = cd.targets[t].ini_groups[g]

\* the mutators on the tree with one device, one target, one LUN and one
\* group: each of them has a neighbour to leave alone there, or makes one
InitFrame == Init /\ sysfs = SmallTree

SpecFrame == InitFrame /\ [][Next]_vars
====
